---- MODULE Spec2Model ----
(***************************************************************************)
(* Model of the task Store of the Gantt editor (src/js/store.js) together  *)
(* with the subscribers the views register on it (src/js/table.js,         *)
(* src/js/gantt.js, src/js/app.js).                                        *)
(*                                                                         *)
(* Every Store method is a pure operator on a record S holding the fields  *)
(* of the Store object; an action of the state machine is one call of a    *)
(* public method, run to completion (the notifications it sends and what   *)
(* the subscribers do with them included).  JavaScript arrays are          *)
(* sequences, so history[historyIndex] of the code is                      *)
(* history[historyIndex + 1] here; historyIndex keeps the code's 0-based   *)
(* value (-1 for an empty history).                                        *)
(***************************************************************************)
EXTENDS Integers, Sequences, FiniteSets, TLC

(***************************************************************************)
(* Bounds of the model.                                                    *)
(***************************************************************************)
\* Store.maxHistory is 50 in the constructor (store.js:38); the model keeps
\* the same cap logic with a smaller cap so that eviction is reached.
maxHistory == 3
\* add/duplicate are offered while nextId <= MaxId.
MaxId == 2
\* Spec explores every sequence of at most MaxCalls calls
MaxCalls == 4
\* SpecHist explores every sequence of at most MaxHistCalls calls
MaxHistCalls == 5
\* SpecDrag explores every sequence of at most MaxDragEvents events
MaxDragEvents == 6
\* SpecPort explores every sequence of at most MaxPortCalls calls
MaxPortCalls == 4
\* SpecQuery explores every sequence of at most MaxQueryCalls calls
MaxQueryCalls == 4
\* SpecCloud explores every sequence of at most MaxCloudSteps steps (calls
\* and settled requests), with at most MaxPending requests in flight
MaxCloudSteps == 5
MaxPending == 2
\* SpecBounds explores every sequence of at most MaxBoundsSteps calls and
\* zoom changes
MaxBoundsSteps == 4
\* SpecTick applies chooseTickInterval to every span of 0..MaxSpanMinutes,
\* in sequences of at most MaxTickCalls calls
MaxSpanMinutes == 20000
MaxTickCalls == 2
\* calls of the store that redraw the rows of the timeline
MaxRowSteps == 4
\* mutations carried out and not undone
MaxUndoable == 3
\* calls and settled loads around an import
MaxImportSteps == 5
\* calls of the store that make the table re-render
MaxTableSteps == 4
\* SpecSave explores every sequence of at most MaxSaveSteps events and
\* settled saves
MaxSaveSteps == 4
\* SpecColor explores every sequence of at most MaxColorCalls calls
MaxColorCalls == 3
\* SpecCrit explores every sequence of at most MaxCritCalls calls, with add
\* offered while nextId <= MaxCritId
MaxCritCalls == 5
MaxCritId == 3

(***************************************************************************)
(* Values.                                                                 *)
(***************************************************************************)
\* DEFAULT_TYPES, two of its nine entries (names transliterated)
DEFAULT_TYPES == [n \in {"Transport", "Montazh"} |->
                     IF n = "Transport" THEN "#5da7ff" ELSE "#ffd166"]

FallbackColor == "#5da7ff"
CopyMarker == " (copy)"

\* the wall clock read by add() for a missing start / end
NowStart == "2026-02-25T08:00"
NowEnd == "2026-02-25T09:00"

\* NaN: equal to no task id
NaN == -1

\* parseInt of a dependency entry (dependencies are stored as strings,
\* see addDemoData)
ParseInt(s) ==
    CASE s = "1" -> 1
      [] s = "2" -> 2
      [] s = "3" -> 3
      [] s = "4" -> 4
      [] s = "5" -> 5
      [] OTHER -> NaN

Has(p, f) == f \in DOMAIN p

\* p.f || d  for a string field
OrStr(p, f, d) == IF Has(p, f) /\ p[f] /= "" THEN p[f] ELSE d
\* p.f || d  for a numeric field
OrNum(p, f, d) == IF Has(p, f) /\ p[f] /= 0 THEN p[f] ELSE d
\* p.f || d  for a boolean field
OrBool(p, f, d) == IF Has(p, f) /\ p[f] THEN p[f] ELSE d
\* p.f || d  for an array field (an array, even empty, is truthy)
OrArr(p, f, d) == IF Has(p, f) THEN p[f] ELSE d

\* the registry is not consulted
TypeColorIgnored(types, name, d) == d

\* this.types[name] || d
TypeColorOr(types, name, d) ==
    IF name \in DOMAIN types /\ types[name] /= "" THEN types[name] ELSE d

Range(s) == {s[i] : i \in 1..Len(s)}

\* Set.add on an insertion-ordered set
SetAdd(s, x) == IF x \in Range(s) THEN s ELSE Append(s, x)
\* Set.delete
SetDelete(s, x) == SelectSeq(s, LAMBDA y : y /= x)
\* new Set(array)
RECURSIVE NewSet(_)
NewSet(arr) ==
    IF arr = <<>> THEN <<>>
    ELSE SetAdd(NewSet(SubSeq(arr, 1, Len(arr) - 1)), arr[Len(arr)])
\* Array.from(set)
ArrayFrom(s) == s

\* an entry of a task list that is no object (null); importData can leave
\* one in this.data
BadEntry == [bad |-> TRUE]

\* t => t.id === id
IdIs(t, id) == t /= BadEntry /\ t.id = id

\* index of the first entry that is no object, 0 when there is none
FirstBad(data) ==
    IF BadEntry \in {data[i] : i \in 1..Len(data)}
    THEN CHOOSE i \in 1..Len(data) :
            /\ data[i] = BadEntry
            /\ \A j \in 1..(i - 1) : data[j] /= BadEntry
    ELSE 0

\* index of the first task with the given id, 0 when there is none
\* (Array.findIndex / Array.find, with -1 of the code being 0 here)
FindIndex(data, id) ==
    IF \E i \in 1..Len(data) : IdIs(data[i], id)
    THEN CHOOSE i \in 1..Len(data) :
            /\ IdIs(data[i], id)
            /\ \A j \in 1..(i - 1) : ~IdIs(data[j], id)
    ELSE 0

\* the search reads t.id of an entry that is no object before it finds the
\* id: a TypeError
FindThrows(data, id) ==
    /\ FirstBad(data) /= 0
    /\ FindIndex(data, id) \notin 1..FirstBad(data)

\* Math.max(...ids, 0)
MaxOf(ids) == IF ids = {} THEN 0
              ELSE LET m == CHOOSE x \in ids : \A y \in ids : y <= x
                   IN IF m > 0 THEN m ELSE 0

\* Array.splice(index, 1)
RemoveAt(s, i) == SubSeq(s, 1, i - 1) \o SubSeq(s, i + 1, Len(s))

(***************************************************************************)
(* Return values of the Store methods.                                     *)
(***************************************************************************)
RetTask(t) == [kind |-> "task", task |-> t]
RetNull == [kind |-> "null"]
RetBool(b) == [kind |-> "bool", val |-> b]
RetIds(ids) == [kind |-> "ids", ids |-> ids]
RetTasks(ts) == [kind |-> "tasks", tasks |-> ts]
\* a number, with the argument it was computed from
RetNumber(arg, val) == [kind |-> "number", arg |-> arg, val |-> val]
RetVoid == [kind |-> "void"]
\* the call did not return: an exception left it
Threw == [kind |-> "threw"]

NoPayload == [none |-> TRUE]

(***************************************************************************)
(* State: the fields of the Store object, and what a caller observes.      *)
(***************************************************************************)
VARIABLES
    data,           \* Store.data: the task list
    nextId,         \* Store.nextId
    types,          \* Store.types: the type registry, name -> colour
    history,        \* Store.history: snapshots, oldest first
    historyIndex,   \* Store.historyIndex: 0-based cursor, -1 when empty
    criticalTasks,  \* Store.criticalTasks: a Set, in insertion order
    projectName,    \* Store.projectName
    subscribers,    \* Store.subscribers: the registered callbacks
    calls,          \* observation: the last two calls: the method, its
                    \* result in one word, and whether redo was possible
                    \* when it started
    ret,            \* observation: what the last call returned
    before,         \* observation: the state the last call started from
    steps,          \* observation: number of calls made so far
    log,            \* observation: callbacks invoked during the last call
    dispatches,     \* observation: the notify calls of the last call, each
                    \* with the subscriber list it started with and what
                    \* the store held then
    gantt,          \* the Gantt view: zoom, scale and the drag closures
    objects,        \* the task objects the live list and the snapshots
                    \* hold: for each entry the identity of its object
    renders,        \* observation: for each Gantt.render of the last call,
                    \* the fields of the store it changed
    tableRenders,   \* observation: for each Table.render of the last call,
                    \* the rows it made: the task's id and whether the row
                    \* got the class critical
    app,            \* the page of App: the messages showToast has shown
                    \* (with the number of the save request they follow),
                    \* whether the save button is disabled, whether the
                    \* share modal is open
    pending,        \* the cloud requests in flight: the calls of
                    \* App.loadFromCloud / App.saveToCloud waiting at
                    \* their await
    assigned        \* observation: ids add / duplicate gave to the tasks
                    \* they created so far

storeVars == <<data, nextId, types, history, historyIndex, criticalTasks,
               projectName, subscribers>>
vars == <<data, nextId, types, history, historyIndex, criticalTasks,
          projectName, subscribers, calls, ret, before, steps, log,
          dispatches, gantt, objects, renders, tableRenders, pending,
          assigned, app>>

\* the Store object as a record; thrown: an exception is propagating;
\* ret: the value the running method returns; busy: a subscriber that
\* calls back into the store is running (the flag such a subscriber keeps
\* so that its own call does not make it call back again)
Store ==
    [data |-> data, nextId |-> nextId, types |-> types, history |-> history,
     historyIndex |-> historyIndex, criticalTasks |-> criticalTasks,
     projectName |-> projectName, subscribers |-> subscribers,
     log |-> <<>>, dispatches |-> <<>>, thrown |-> FALSE, ret |-> RetVoid,
     busy |-> FALSE, gantt |-> gantt, objects |-> objects,
     renders |-> <<>>, tableRenders |-> <<>>, pending |-> pending,
     app |-> app]

\* the live state a snapshot captures: task list, next-id counter and
\* critical-id set (a Set compares by membership)
LiveOf(S) ==
    [data |-> S.data, nextId |-> S.nextId,
     criticalTasks |-> Range(S.criticalTasks)]
Live == LiveOf(Store)

\* the live state held by a snapshot's state object
SnapLive(state) ==
    [data |-> state.data, nextId |-> state.nextId,
     criticalTasks |-> Range(state.criticalTasks)]

(***************************************************************************)
(* Store methods.                                                          *)
(***************************************************************************)
\* getById: the first task with that id; NoTask when there is none
NoTask == [none |-> TRUE]
getById(S, id) ==
    IF FindIndex(S.data, id) = 0 THEN NoTask ELSE S.data[FindIndex(S.data, id)]
\* getById does not return: see FindThrows

\* JSON.parse(JSON.stringify(x)) of task lists: every field of a task is a
\* string, a number, a boolean or an array of strings, which the round trip
\* reproduces
JSONCopy(x) == x

\* ---- object identities ----
\* objects.live[i] is the identity of the object that is data[i],
\* objects.snaps[j][k] that of the object that is history[j].state.data[k];
\* two entries with the same identity are one object, and a write to it
\* shows in both.  An identity is a pair that has no meaning but to tell
\* objects apart: between calls <<0, i>> for the object of data[i] and
\* <<j, k>> for that of history[j].state.data[k] while no object is held
\* twice; objects.next numbers the objects made during a call, and
\* objects.shared says that some object may be held twice
NoObjects == [live |-> <<>>, snaps |-> <<>>, next |-> 1, shared |-> FALSE]
\* n objects that did not exist before
NewObjects(o, n) == [k \in 1..n |-> <<-1, o.next + k - 1>>]

\* a copy that holds the very objects of the original
SameObjects(o, refs) == refs

\* the objects of JSON.parse(JSON.stringify(list)): new ones
CopiedObjects(o, refs) == NewObjects(o, Len(refs))

\* some of refs existed before
Aliased(o, refs) ==
    \E k \in 1..Len(refs) : refs[k][1] /= -1 \/ refs[k][2] < o.next

\* a write to the object ref (Object.assign, an assignment to a field):
\* every list that holds the object shows the object as written
Write(S, ref, obj) ==
    LET InLive(S1) ==
            [S1 EXCEPT
               !.data = [i \in 1..Len(S.data) |->
                            IF S.objects.live[i] = ref THEN obj
                            ELSE S.data[i]]]
    IN IF ~S.objects.shared
       THEN InLive(S)
       ELSE InLive([S EXCEPT
                    !.history =
                        [j \in 1..Len(S.history) |->
                            [S.history[j] EXCEPT
                               !.state.data =
                                   [k \in 1..Len(S.history[j].state.data) |->
                                       IF S.objects.snaps[j][k] = ref THEN obj
                                       ELSE S.history[j].state.data[k]]]]])

\* the identities of every list, one list after the other
RECURSIVE Flat(_)
Flat(seqs) == IF seqs = <<>> THEN <<>> ELSE Head(seqs) \o Flat(Tail(seqs))
\* the identities of a list, each once, in the order of first occurrence
RECURSIVE Distinct(_)
Distinct(all) ==
    IF all = <<>> THEN <<>>
    ELSE LET Rest(d) == IF all[Len(all)] \in Range(d) THEN d
                        ELSE Append(d, all[Len(all)])
         IN Rest(Distinct(SubSeq(all, 1, Len(all) - 1)))
\* every object named by the place of the first list that holds it
Relabelled(o, order) ==
    LET Name(r) == <<-2, CHOOSE i \in 1..Len(order) : order[i] = r>>
    IN [live |-> [i \in 1..Len(o.live) |-> Name(o.live[i])],
        snaps |-> [j \in 1..Len(o.snaps) |->
                      [k \in 1..Len(o.snaps[j]) |-> Name(o.snaps[j][k])]],
        next |-> 1, shared |-> TRUE]
\* every object named by its place, no object being held twice
Numbered(o) ==
    [live |-> [i \in 1..Len(o.live) |-> <<0, i>>],
     snaps |-> [j \in 1..Len(o.snaps) |->
                   [k \in 1..Len(o.snaps[j]) |-> <<j, k>>]],
     next |-> 1, shared |-> FALSE]
\* the identities renamed, which object is which being all they say
Canonical(o) ==
    LET Numbering(all) ==
            IF Cardinality(Range(all)) = Len(all) THEN Numbered(o)
            ELSE Relabelled(o, Distinct(all))
    IN IF o.shared THEN Numbering(o.live \o Flat(o.snaps)) ELSE Numbered(o)

\* calculateCriticalPath: high-priority tasks, then every live task named in
\* some dependencies list
RECURSIVE AddDeps(_, _, _)
AddDeps(S, crit, deps) ==
    IF deps = <<>> THEN crit
    ELSE LET depTask == getById(S, ParseInt(Head(deps)))
         IN AddDeps(S,
                    IF depTask = NoTask THEN crit ELSE SetAdd(crit, depTask.id),
                    Tail(deps))

RECURSIVE CriticalHigh(_, _, _)
CriticalHigh(S, i, crit) ==
    IF i > Len(S.data) THEN crit
    ELSE CriticalHigh(S, i + 1,
                      IF S.data[i].priority = "high"
                      THEN SetAdd(crit, S.data[i].id) ELSE crit)

\* a second loop that also marks the task that has the dependencies
RECURSIVE CriticalDepsAndDependents(_, _, _)
CriticalDepsAndDependents(S, i, crit) ==
    IF i > Len(S.data) THEN crit
    ELSE CriticalDepsAndDependents(
             S, i + 1,
             IF Len(S.data[i].dependencies) > 0
             THEN SetAdd(AddDeps(S, crit, S.data[i].dependencies),
                         S.data[i].id)
             ELSE crit)

RECURSIVE CriticalDeps(_, _, _)
CriticalDeps(S, i, crit) ==
    IF i > Len(S.data) THEN crit
    ELSE CriticalDeps(S, i + 1,
                      IF Len(S.data[i].dependencies) > 0
                      THEN AddDeps(S, crit, S.data[i].dependencies) ELSE crit)

\* an exception leaves the running method
Throwing(S) == [S EXCEPT !.thrown = TRUE, !.ret = Threw]

\* calculateCriticalPath that records a snapshot of what it computed
calculateCriticalPathSnapshot(S) ==
    LET crit == CriticalDeps(S, 1, CriticalHigh(S, 1, <<>>))
    IN [S EXCEPT !.criticalTasks = crit,
                 !.history = Append(@, [state |->
                                            [data |-> S.data,
                                             nextId |-> S.nextId,
                                             criticalTasks |-> crit],
                                        description |-> "Kriticheskiy put"]),
                 !.objects.snaps =
                     Append(@, CopiedObjects(S.objects, S.objects.live)),
                 !.objects.next = @ + Len(S.objects.live),
                 !.objects.shared =
                     @ \/ Aliased(S.objects,
                                  CopiedObjects(S.objects, S.objects.live)),
                 !.historyIndex = @ + 1,
                 !.ret = RetIds(ArrayFrom(crit))]

calculateCriticalPath(S) ==
    IF FirstBad(S.data) /= 0
    THEN \* task.priority of an entry that is no object throws, in the
         \* first loop, after the tasks before it were looked at
         Throwing([S EXCEPT !.criticalTasks =
                      CriticalHigh([S EXCEPT !.data =
                                       SubSeq(@, 1, FirstBad(S.data) - 1)],
                                   1, <<>>)])
    ELSE LET crit == CriticalDeps(S, 1, CriticalHigh(S, 1, <<>>))
         IN [S EXCEPT !.criticalTasks = crit, !.ret = RetIds(ArrayFrom(crit))]

isCritical(S, id) == id \in Range(S.criticalTasks)

toggleCritical(S, id) ==
    [S EXCEPT !.criticalTasks =
                  IF id \in Range(@) THEN SetDelete(@, id) ELSE SetAdd(@, id),
              !.ret = RetVoid]

\* ---- filtering ----
\* String.prototype.toLowerCase, on the letters A-Z
UpperCase == "ABCDEFGHIJKLMNOPQRSTUVWXYZ"
LowerCase == "abcdefghijklmnopqrstuvwxyz"
LowerChar(c) ==
    IF \E i \in 1..Len(UpperCase) : SubSeq(UpperCase, i, i) = c
    THEN LET i == CHOOSE i \in 1..Len(UpperCase) : SubSeq(UpperCase, i, i) = c
         IN SubSeq(LowerCase, i, i)
    ELSE c
RECURSIVE toLowerCase(_)
toLowerCase(str) ==
    IF str = "" THEN ""
    ELSE LowerChar(SubSeq(str, 1, 1)) \o toLowerCase(SubSeq(str, 2, Len(str)))

\* String.prototype.includes
includes(str, sub) ==
    \E i \in 0..(Len(str) - Len(sub)) : SubSeq(str, i + 1, i + Len(sub)) = sub

\* one step of filter: result.filter(pred) when the option is supplied
\* (truthy)
FilterStep(result, supplied, pred(_)) ==
    IF supplied THEN SelectSeq(result, pred) ELSE result

\* filter(options); every callback reads a field of the entry it is given,
\* which throws on an entry that is no object
filter(S, options) ==
    LET search == toLowerCase(OrStr(options, "search", ""))
        bySearch == FilterStep(S.data, OrStr(options, "search", "") /= "",
                               LAMBDA t : \/ includes(toLowerCase(t.task),
                                                      search)
                                          \/ includes(toLowerCase(t.type),
                                                      search))
        byType == FilterStep(bySearch, OrStr(options, "type", "") /= "",
                             LAMBDA t : t.type = options.type)
        byPriority == FilterStep(byType, OrStr(options, "priority", "") /= "",
                                 LAMBDA t : t.priority = options.priority)
        byCritical == FilterStep(byPriority,
                                 OrBool(options, "criticalOnly", FALSE),
                                 LAMBDA t : t.id \in Range(S.criticalTasks))
        supplied == \/ OrStr(options, "search", "") /= ""
                    \/ OrStr(options, "type", "") /= ""
                    \/ OrStr(options, "priority", "") /= ""
                    \/ OrBool(options, "criticalOnly", FALSE)
    IN IF supplied /\ FirstBad(S.data) /= 0 THEN Throwing(S)
       ELSE [S EXCEPT !.ret = RetTasks(byCritical)]

\* ---- subscribers ----
\* the actions on which the table re-renders
TableActions == {"add", "update", "delete", "import", "undo", "redo"}

\* Table.filters as the constructor sets them
TableFilters == [search |-> "", type |-> "", priority |-> ""]

\* Table.render with no sort column: a row for every task store.filter
\* returns, in its order, with the class critical when store.isCritical
\* says so; createRow reads task.id, which throws on an entry that is no
\* object, after the rows before it were made
TableRender(S) ==
    LET list == filter(S, TableFilters).ret.tasks
        n == IF FirstBad(list) /= 0 THEN FirstBad(list) - 1 ELSE Len(list)
        rows == [k \in 1..n |-> [id |-> list[k].id,
                                 critical |-> isCritical(S, list[k].id)]]
        S1 == [S EXCEPT !.tableRenders = Append(@, rows)]
    IN IF FirstBad(list) /= 0 THEN Throwing(S1) ELSE S1

\* the actions on which the Gantt view re-renders
GanttActions ==
    {"add", "update", "delete", "import", "undo", "redo", "critical-change"}

\* ---- dates (utils.js) ----
Digit(c) ==
    CASE c = "0" -> 0 [] c = "1" -> 1 [] c = "2" -> 2 [] c = "3" -> 3
      [] c = "4" -> 4 [] c = "5" -> 5 [] c = "6" -> 6 [] c = "7" -> 7
      [] c = "8" -> 8 [] c = "9" -> 9
\* Number of a two-digit field
Num2(s) == 10 * Digit(SubSeq(s, 1, 1)) + Digit(SubSeq(s, 2, 2))
Digits == <<"0", "1", "2", "3", "4", "5", "6", "7", "8", "9">>
pad2(n) == Digits[(n \div 10) + 1] \o Digits[(n % 10) + 1]

\* a Date is held as the minutes of its local wall clock since
\* 2026-02-01T00:00 (every date of the model lies in February 2026)
Null == -100000
DateOf(d, hh, mm) == ((d - 1) * 24 + hh) * 60 + mm

\* parseDateTime of a string of the form YYYY-MM-DDTHH:MM: the Date with
\* that local wall clock; null for an empty string
parseDateTime(str) ==
    IF str = "" THEN Null
    ELSE DateOf(Num2(SubSeq(str, 9, 10)), Num2(SubSeq(str, 12, 13)),
                Num2(SubSeq(str, 15, 16)))

\* date.toISOString().slice(0, 16): the wall clock of the Date in UTC,
\* where the local clock is offset minutes ahead of UTC
ToISOString(date, offset) ==
    LET utc == date - offset
    IN "2026-02-" \o pad2((utc \div 1440) + 1) \o "T"
         \o pad2((utc % 1440) \div 60) \o ":" \o pad2(utc % 60)

\* Math.round(n / d) and Math.ceil(n / d) for d > 0
Round(n, d) == (2 * n + d) \div (2 * d)
Ceil(n, d) == -((-n) \div d)
Max(a, b) == IF a >= b THEN a ELSE b
MinOf(xs) == CHOOSE x \in xs : \A y \in xs : x <= y
MaxIn(xs) == CHOOSE x \in xs : \A y \in xs : y <= x

\* ---- Gantt view ----
\* container.clientWidth and the values of the zoom select
ClientWidth == 1450
ZoomValues == {6, 12}

\* the Gantt object and its bars after construction: pxPerMin is a
\* fraction <<numerator, denominator>>; closures holds, for every bar, the
\* variables of its setupDragDrop call
NewGantt ==
    [hoursPerScreen |-> 12, pxPerMin |-> <<1, 1>>, minStart |-> Null,
     maxEnd |-> Null, closures |-> <<>>, labels |-> <<>>, curves |-> <<>>]

\* this.rowHeight
rowHeight == 50

\* data.sort by parseDateTime(start) || 0, a stable sort
SortKey(t) == IF parseDateTime(t.start) = Null THEN 0
              ELSE parseDateTime(t.start)
RECURSIVE SortByStart(_)
SortByStart(ts) ==
    IF ts = <<>> THEN <<>>
    ELSE LET sorted == SortByStart(SubSeq(ts, 1, Len(ts) - 1))
             t == ts[Len(ts)]
             n == Cardinality({i \in 1..Len(sorted) :
                                  SortKey(sorted[i]) <= SortKey(t)})
         IN SubSeq(sorted, 1, n) \o <<t>> \o SubSeq(sorted, n + 1, Len(sorted))

\* new Date(Infinity), new Date(-Infinity): an invalid Date
InvalidDate == -200000

\* the earliest start and the latest end bound the chart
TimeBoundsStartsEnds(ts) ==
    LET starts == {parseDateTime(ts[i].start) : i \in 1..Len(ts)} \ {Null}
        ends == {parseDateTime(ts[i].end) : i \in 1..Len(ts)} \ {Null}
    IN [minStart |-> IF starts = {} THEN InvalidDate ELSE MinOf(starts),
        maxEnd |-> IF ends = {} THEN InvalidDate ELSE MaxIn(ends)]

\* calculateTimeBounds: Math.min / Math.max over the starts and the ends
\* that parse, all in one array; of an empty array they are Infinity and
\* -Infinity
TimeBounds(ts) ==
    LET dates == {parseDateTime(ts[i].start) : i \in 1..Len(ts)}
                   \cup {parseDateTime(ts[i].end) : i \in 1..Len(ts)}
        valid == dates \ {Null}
    IN IF valid = {} THEN [minStart |-> InvalidDate, maxEnd |-> InvalidDate]
       ELSE [minStart |-> MinOf(valid), maxEnd |-> MaxIn(valid)]

\* the arguments of chooseTickInterval
SpanMinutes == 0..MaxSpanMinutes

\* the first bound is exclusive
chooseTickIntervalBelow(spanMinutes) ==
    IF spanMinutes < 480 THEN 30
    ELSE IF spanMinutes <= 1440 THEN 60
    ELSE IF spanMinutes <= 2880 THEN 120
    ELSE IF spanMinutes <= 10080 THEN 720
    ELSE 1440

\* chooseTickInterval
chooseTickInterval(spanMinutes) ==
    IF spanMinutes <= 480 THEN 30
    ELSE IF spanMinutes <= 1440 THEN 60
    ELSE IF spanMinutes <= 2880 THEN 120
    ELSE IF spanMinutes <= 10080 THEN 720
    ELSE 1440

\* renderBars / setupDragDrop: a bar for every task with a start and an
\* end, its style.left as a fraction of a pixel, its closure idle
Bar(task, index, minStart, pxPerMin) ==
    [id |-> task.id, attached |-> TRUE, top |-> index * rowHeight + 9,
     left |-> <<(parseDateTime(task.start) - minStart) * pxPerMin[1],
                pxPerMin[2]>>,
     isDragging |-> FALSE, startX |-> 0, startLeft |-> 0]

Detached(closures) ==
    [k \in 1..Len(closures) |-> [closures[k] EXCEPT !.attached = FALSE]]

\* the fields of the store that differ between S and S1
Changed(S, S1) ==
    {f \in {"data", "nextId", "types", "history", "historyIndex"} :
        S[f] /= S1[f]}
      \cup (IF Range(S.criticalTasks) /= Range(S1.criticalTasks)
            THEN {"criticalTasks"} ELSE {})

\* renderBars that counts the bars it draws instead of the tasks
RenderBarsPacked(tasks, minStart, pxPerMin) ==
    LET drawn == SelectSeq(tasks, LAMBDA t :
                               parseDateTime(t.start) /= Null
                               /\ parseDateTime(t.end) /= Null)
    IN [j \in 1..Len(drawn) |-> Bar(drawn[j], j - 1, minStart, pxPerMin)]

\* renderBars: data.forEach((task, index) => ...) returns at once for a
\* task whose start or end does not parse
RenderBars(tasks, minStart, pxPerMin) ==
    LET all == [k \in 1..Len(tasks) |-> k]
        drawn == SelectSeq(all, LAMBDA k :
                               parseDateTime(tasks[k].start) /= Null
                               /\ parseDateTime(tasks[k].end) /= Null)
    IN [j \in 1..Len(drawn) |->
           Bar(tasks[drawn[j]], drawn[j] - 1, minStart, pxPerMin)]

\* renderYLabels: one item per task, in the order of the list
RenderYLabels(tasks) == [k \in 1..Len(tasks) |-> tasks[k].id]

\* positionMap.get(id): the row of the last task of the list with that id,
\* 0 when the map has no such key
PositionOf(tasks, id) ==
    LET at == {k \in 1..Len(tasks) : tasks[k].id = id}
    IN IF at = {} THEN 0 ELSE MaxIn(at)

\* renderDependencies (the box showDependencies is checked): a curve for
\* every entry of a dependencies list that names a task of the list, from
\* the middle of the row of the named task to that of the task that names it
RECURSIVE RenderDependencies(_, _)
RenderDependencies(tasks, k) ==
    IF k > Len(tasks) THEN <<>>
    ELSE LET deps == tasks[k].dependencies
             Y(id) == (PositionOf(tasks, id) - 1) * rowHeight
                          + rowHeight \div 2
             curve == [j \in 1..Len(deps) |->
                          [from |-> ParseInt(deps[j]), to |-> tasks[k].id,
                           startY |-> Y(ParseInt(deps[j])),
                           endY |-> Y(tasks[k].id)]]
         IN SelectSeq(curve, LAMBDA c : PositionOf(tasks, c.from) /= 0)
               \o RenderDependencies(tasks, k + 1)

\* the fraction that stands for a pxPerMin of NaN
NaNPerMin == <<0, 0>>

\* the zoom of Gantt.render: this.pxPerMin (NaN when the bounds are
\* invalid Dates)
PxPerMin(hoursPerScreen, bounds) ==
    LET spanMinutes == Max(1, bounds.maxEnd - bounds.minStart)
        containerWidth == ClientWidth - 250
    IN IF bounds.minStart = InvalidDate THEN NaNPerMin
       ELSE <<Max(800, Ceil(spanMinutes * containerWidth,
                            hoursPerScreen * 60)),
              hoursPerScreen * 60>>

\* Gantt.render from the clearing of the page on; tasks is the sorted list
Draw(S2, tasks) ==
    LET Placed(bounds, pxPerMin) ==
            [S2 EXCEPT
               !.gantt.minStart = bounds.minStart,
               !.gantt.maxEnd = bounds.maxEnd,
               !.gantt.pxPerMin = pxPerMin,
               !.gantt.labels = RenderYLabels(tasks),
               !.gantt.curves = RenderDependencies(tasks, 1),
               !.gantt.closures =
                   Detached(@) \o
                   RenderBars(tasks, bounds.minStart, pxPerMin)]
        Bounded(bounds) ==
            Placed(bounds, PxPerMin(S2.gantt.hoursPerScreen, bounds))
    IN IF tasks = <<>>
       THEN [S2 EXCEPT !.gantt.closures = Detached(@),
                       !.gantt.labels = <<>>, !.gantt.curves = <<>>]
       ELSE Bounded(TimeBounds(tasks))

\* Gantt.render
GanttRender(S) ==
    LET Rendered(S1) ==
            IF S1.thrown THEN S1
            ELSE Draw([S1 EXCEPT !.ret = S.ret,
                                 !.renders = Append(@, Changed(S, S1))],
                      SortByStart(SelectSeq(S1.data,
                                            LAMBDA t : ~t.milestone)))
    IN Rendered(calculateCriticalPath(S))

\* the closures whose handlers can still do something: those of the bars
\* on the page and those that are dragging (the handlers of the others
\* return at their first line, for ever)
Prune(g) ==
    [g EXCEPT !.closures = SelectSeq(@, LAMBDA c : c.attached \/ c.isDragging)]

\* the methods a callback can call back into
RECURSIVE add(_, _)
RECURSIVE update(_, _, _)
RECURSIVE delete(_, _)

\* the patch of the callback that calls update
ReentryPatch == [progress |-> 100]

\* ---- subscriptions ----
subscribe(S, callback) == [S EXCEPT !.subscribers = Append(@, callback)]
\* the function subscribe returns
unsubscribe(S, callback) ==
    [S EXCEPT !.subscribers = SelectSeq(@, LAMBDA cb : cb /= callback)]

\* a callback that changes the subscriptions:
\*   "joiner"   subscribes the listener "late", once
\*   "leaver"   unsubscribes itself
\*   "bouncer"  unsubscribes the listener "table"
Subscribing == {"joiner", "leaver", "bouncer"}

Resubscribe(S, cb) ==
    CASE cb = "joiner" /\ "late" \notin Range(S.subscribers) ->
             subscribe(S, "late")
      [] cb = "leaver" -> unsubscribe(S, "leaver")
      [] cb = "bouncer" -> unsubscribe(S, "table")
      [] OTHER -> S

\* a callback that calls back into the store unless it is already running:
\*   "reUpdate"  on every action, update of the last task of the list
\*   "reDelete"  on 'add', delete of the task just added
\*   "reAdd"     on 'delete', add of the task just deleted
Reentrant == {"reUpdate", "reDelete", "reAdd"}

Reenter(S, cb, action, payload) ==
    CASE cb = "reUpdate" /\ S.data /= <<>> ->
             update(S, S.data[Len(S.data)].id, ReentryPatch)
      [] cb = "reDelete" /\ action = "add" -> delete(S, payload.id)
      [] cb = "reAdd" /\ action = "delete" -> add(S, payload)
      [] OTHER -> S

\* one callback invocation; cb is the kind of callback registered:
\*   "table"   Table.bindEvents' subscription (render reads the task
\*             list and the critical set)
\*   "gantt"   Gantt.bindEvents' subscription (render recomputes the
\*             critical set)
\*   "app"     App.initMainApp's subscription (reads the project name)
\*   "thrower" a callback that throws
\*   "late"    a listener that only listens
\*   one of Reentrant, one of Subscribing
Callback(S, cb, i, action, payload) ==
    LET S1 == [S EXCEPT !.log = Append(@, [sub |-> i, cb |-> cb,
                                           action |-> action,
                                           payload |-> payload])]
    IN CASE cb = "table" ->
                IF action \in TableActions THEN TableRender(S1) ELSE S1
         [] cb = "gantt" ->
                IF action \in GanttActions THEN GanttRender(S1) ELSE S1
         [] cb = "thrower" -> [S1 EXCEPT !.thrown = TRUE]
         [] cb \in Subscribing -> Resubscribe(S1, cb)
         [] cb \in Reentrant /\ ~S1.busy ->
                [Reenter([S1 EXCEPT !.busy = TRUE], cb, action, payload)
                    EXCEPT !.busy = FALSE]
         [] OTHER -> S1

\* Array.forEach over the array that is this.subscribers when notify starts,
\* up to the length it has then (subscribe pushes onto that array, the
\* function it returns puts a filtered copy in its place); an exception
\* thrown by a callback ends the loop and leaves notify
RECURSIVE NotifyFrom(_, _, _, _, _)
NotifyFrom(S, subs, i, action, payload) ==
    IF i > Len(subs) THEN S
    ELSE LET Rest(S1) == IF S1.thrown THEN S1
                         ELSE NotifyFrom(S1, subs, i + 1, action, payload)
         IN Rest(Callback(S, subs[i], i, action, payload))

\* a loop that reads this.subscribers anew at every step
RECURSIVE NotifyLiveFrom(_, _, _, _)
NotifyLiveFrom(S, i, action, payload) ==
    IF i > Len(S.subscribers) THEN S
    ELSE LET Rest(S1) == IF S1.thrown THEN S1
                         ELSE NotifyLiveFrom(S1, i + 1, action, payload)
         IN Rest(Callback(S, S.subscribers[i], i, action, payload))

\* what the store holds when notify is called
Seen(S) ==
    [data |-> S.data, history |-> S.history, historyIndex |-> S.historyIndex]

\* a notify call starts
Dispatch(S, action) ==
    [S EXCEPT !.dispatches = Append(@, [action |-> action,
                                        subs |-> S.subscribers,
                                        seen |-> Seen(S)])]

\* notify that follows the list as the callbacks change it
notifyLive(S, action, payload) ==
    NotifyLiveFrom(Dispatch(S, action), 1, action, payload)

notify(S, action, payload) ==
    NotifyFrom(Dispatch(S, action), S.subscribers, 1, action, payload)

\* saveState that keeps the snapshots after the cursor
saveStateNoCut(S, description) ==
    LET state == [data |-> JSONCopy(S.data), nextId |-> S.nextId,
                  criticalTasks |-> ArrayFrom(S.criticalTasks)]
        pushed == Append(S.history,
                         [state |-> state, description |-> description])
        over == Len(pushed) > maxHistory
        refs == Append(S.objects.snaps,
                       CopiedObjects(S.objects, S.objects.live))
    IN notify([S EXCEPT !.history = IF over THEN Tail(pushed) ELSE pushed,
                        !.objects.snaps = IF over THEN Tail(refs) ELSE refs,
                        !.objects.next = @ + Len(S.objects.live),
                        !.objects.shared =
                            @ \/ Aliased(S.objects,
                                         CopiedObjects(S.objects, S.objects.live)),
                        !.historyIndex = IF over THEN @ ELSE @ + 1],
              "history-change", NoPayload)

\* saveState that advances the cursor also when it evicts
saveStateDrift(S, description) ==
    LET state == [data |-> JSONCopy(S.data), nextId |-> S.nextId,
                  criticalTasks |-> ArrayFrom(S.criticalTasks)]
        cut == IF S.historyIndex < Len(S.history) - 1
               THEN SubSeq(S.history, 1, S.historyIndex + 1)
               ELSE S.history
        pushed == Append(cut, [state |-> state, description |-> description])
        over == Len(pushed) > maxHistory
        refs == Append(IF S.historyIndex < Len(S.history) - 1
                       THEN SubSeq(S.objects.snaps, 1, S.historyIndex + 1)
                       ELSE S.objects.snaps,
                       CopiedObjects(S.objects, S.objects.live))
    IN notify([S EXCEPT !.history = IF over THEN Tail(pushed) ELSE pushed,
                        !.objects.snaps = IF over THEN Tail(refs) ELSE refs,
                        !.objects.next = @ + Len(S.objects.live),
                        !.objects.shared =
                            @ \/ Aliased(S.objects,
                                         CopiedObjects(S.objects, S.objects.live)),
                        !.historyIndex = @ + 1],
              "history-change", NoPayload)

\* saveState that never evicts
saveStateNoEvict(S, description) ==
    LET state == [data |-> JSONCopy(S.data), nextId |-> S.nextId,
                  criticalTasks |-> ArrayFrom(S.criticalTasks)]
        cut == IF S.historyIndex < Len(S.history) - 1
               THEN SubSeq(S.history, 1, S.historyIndex + 1)
               ELSE S.history
        pushed == Append(cut, [state |-> state, description |-> description])
        refs == Append(IF S.historyIndex < Len(S.history) - 1
                       THEN SubSeq(S.objects.snaps, 1, S.historyIndex + 1)
                       ELSE S.objects.snaps,
                       CopiedObjects(S.objects, S.objects.live))
    IN notify([S EXCEPT !.history = pushed, !.objects.snaps = refs,
                        !.objects.next = @ + Len(S.objects.live),
                        !.objects.shared =
                            @ \/ Aliased(S.objects,
                                         CopiedObjects(S.objects, S.objects.live)),
                        !.historyIndex = @ + 1],
              "history-change", NoPayload)

\* ---- history ----
saveState(S, description) ==
    LET state == [data |-> JSONCopy(S.data), nextId |-> S.nextId,
                  criticalTasks |-> ArrayFrom(S.criticalTasks)]
        cut == IF S.historyIndex < Len(S.history) - 1
               THEN SubSeq(S.history, 1, S.historyIndex + 1)
               ELSE S.history
        pushed == Append(cut, [state |-> state, description |-> description])
        over == Len(pushed) > maxHistory
        refs == Append(IF S.historyIndex < Len(S.history) - 1
                       THEN SubSeq(S.objects.snaps, 1, S.historyIndex + 1)
                       ELSE S.objects.snaps,
                       CopiedObjects(S.objects, S.objects.live))
    IN notify([S EXCEPT !.history = IF over THEN Tail(pushed) ELSE pushed,
                        !.objects.snaps = IF over THEN Tail(refs) ELSE refs,
                        !.objects.next = @ + Len(S.objects.live),
                        !.objects.shared =
                            @ \/ Aliased(S.objects,
                                         CopiedObjects(S.objects, S.objects.live)),
                        !.historyIndex = IF over THEN @ ELSE @ + 1],
              "history-change", NoPayload)

\* restoreState that leaves the critical set as it is; state is the
\* snapshot under the cursor
restoreStateNoCritical(S, state) ==
    [S EXCEPT !.data = JSONCopy(state.data),
              !.objects.live =
                  CopiedObjects(S.objects, S.objects.snaps[S.historyIndex + 1]),
              !.objects.next = @ + Len(state.data),
              !.objects.shared =
                  @ \/ Aliased(S.objects,
                               CopiedObjects(S.objects,
                                             S.objects.snaps[S.historyIndex + 1])),
              !.nextId = state.nextId]

restoreState(S, state) ==
    [S EXCEPT !.data = JSONCopy(state.data),
              !.objects.live =
                  CopiedObjects(S.objects, S.objects.snaps[S.historyIndex + 1]),
              !.objects.next = @ + Len(state.data),
              !.objects.shared =
                  @ \/ Aliased(S.objects,
                               CopiedObjects(S.objects,
                                             S.objects.snaps[S.historyIndex + 1])),
              !.nextId = state.nextId,
              !.criticalTasks = NewSet(state.criticalTasks)]

canUndo(S) == S.historyIndex > 0
canRedo(S) == S.historyIndex < Len(S.history) - 1

\* undo that refuses one snapshot too early
undoOffByOne(S) ==
    IF S.historyIndex > 1
    THEN LET S1 == [S EXCEPT !.historyIndex = @ - 1]
             S2 == restoreState(S1, S1.history[S1.historyIndex + 1].state)
             Done(S3) ==
                 [S3 EXCEPT !.ret = IF S3.thrown THEN Threw ELSE RetBool(TRUE)]
         IN Done(notify(S2, "undo", NoPayload))
    ELSE [S EXCEPT !.ret = RetBool(FALSE)]

\* undo that steps back from the oldest snapshot to the empty store
undoPastOldest(S) ==
    IF S.historyIndex > 0
    THEN LET S1 == [S EXCEPT !.historyIndex = @ - 1]
             S2 == restoreState(S1, S1.history[S1.historyIndex + 1].state)
             Done(S3) ==
                 [S3 EXCEPT !.ret = IF S3.thrown THEN Threw ELSE RetBool(TRUE)]
         IN Done(notify(S2, "undo", NoPayload))
    ELSE IF S.historyIndex = 0
    THEN LET S1 == [S EXCEPT !.historyIndex = -1, !.data = <<>>,
                             !.objects.live = <<>>, !.nextId = 1,
                             !.criticalTasks = <<>>]
             Done(S3) ==
                 [S3 EXCEPT !.ret = IF S3.thrown THEN Threw ELSE RetBool(TRUE)]
         IN Done(notify(S1, "undo", NoPayload))
    ELSE [S EXCEPT !.ret = RetBool(FALSE)]

undo(S) ==
    IF S.historyIndex > 0
    THEN LET S1 == [S EXCEPT !.historyIndex = @ - 1]
             S2 == restoreState(S1, S1.history[S1.historyIndex + 1].state)
             Done(S3) ==
                 [S3 EXCEPT !.ret = IF S3.thrown THEN Threw ELSE RetBool(TRUE)]
         IN Done(notify(S2, "undo", NoPayload))
    ELSE [S EXCEPT !.ret = RetBool(FALSE)]

\* redo that moves the cursor and restores nothing
redoNoRestore(S) ==
    IF S.historyIndex < Len(S.history) - 1
    THEN LET S1 == [S EXCEPT !.historyIndex = @ + 1]
             Done(S3) ==
                 [S3 EXCEPT !.ret = IF S3.thrown THEN Threw ELSE RetBool(TRUE)]
         IN Done(notify(S1, "redo", NoPayload))
    ELSE [S EXCEPT !.ret = RetBool(FALSE)]

redo(S) ==
    IF S.historyIndex < Len(S.history) - 1
    THEN LET S1 == [S EXCEPT !.historyIndex = @ + 1]
             S2 == restoreState(S1, S1.history[S1.historyIndex + 1].state)
             Done(S3) ==
                 [S3 EXCEPT !.ret = IF S3.thrown THEN Threw ELSE RetBool(TRUE)]
         IN Done(notify(S2, "redo", NoPayload))
    ELSE [S EXCEPT !.ret = RetBool(FALSE)]

\* ---- tasks ----
DefaultTitle == "Novaya rabota"

\* the task object obj as it is now: a callback that ran meanwhile may have
\* updated it in place (the list holds the same object while it holds a
\* task of that id)
Deref(S, obj) ==
    IF FindIndex(S.data, obj.id) /= 0 THEN S.data[FindIndex(S.data, obj.id)]
    ELSE obj

\* add that takes the id after the largest live id
addIdFromLive(S, task) ==
    LET id == MaxOf({S.data[i].id : i \in 1..Len(S.data)}) + 1
        newTask ==
            [id |-> id,
             type |-> OrStr(task, "type", ""),
             task |-> OrStr(task, "task", DefaultTitle),
             start |-> OrStr(task, "start", NowStart),
             end |-> OrStr(task, "end", NowEnd),
             progress |-> OrNum(task, "progress", 0),
             priority |-> OrStr(task, "priority", "medium"),
             milestone |-> OrBool(task, "milestone", FALSE),
             owner |-> OrStr(task, "owner", ""),
             dependencies |-> OrArr(task, "dependencies", <<>>),
             color |-> OrStr(task, "color",
                             TypeColorOr(S.types,
                                         IF Has(task, "type") THEN task.type
                                         ELSE "undefined",
                                         FallbackColor))]
        S1 == [S EXCEPT !.nextId = id + 1, !.data = Append(@, newTask),
                        !.objects.live = @ \o NewObjects(S.objects, 1),
                        !.objects.next = @ + 1]
        Done(S3) == [S3 EXCEPT !.ret = IF S3.thrown THEN Threw
                                       ELSE RetTask(Deref(S3, newTask))]
        Saved(S2) == Done(IF S2.thrown THEN S2
                          ELSE notify(S2, "add", Deref(S2, newTask)))
    IN Saved(saveState(S1, "Dobavlenie raboty"))

\* add that reads the next-id counter and leaves it as it is
addNoIncrement(S, task) ==
    LET id == S.nextId
        newTask ==
            [id |-> id,
             type |-> OrStr(task, "type", ""),
             task |-> OrStr(task, "task", DefaultTitle),
             start |-> OrStr(task, "start", NowStart),
             end |-> OrStr(task, "end", NowEnd),
             progress |-> OrNum(task, "progress", 0),
             priority |-> OrStr(task, "priority", "medium"),
             milestone |-> OrBool(task, "milestone", FALSE),
             owner |-> OrStr(task, "owner", ""),
             dependencies |-> OrArr(task, "dependencies", <<>>),
             color |-> OrStr(task, "color",
                             TypeColorOr(S.types,
                                         IF Has(task, "type") THEN task.type
                                         ELSE "undefined",
                                         FallbackColor))]
        S1 == [S EXCEPT !.data = Append(@, newTask),
                        !.objects.live = @ \o NewObjects(S.objects, 1),
                        !.objects.next = @ + 1]
        Done(S3) == [S3 EXCEPT !.ret = IF S3.thrown THEN Threw
                                       ELSE RetTask(Deref(S3, newTask))]
        Saved(S2) == Done(IF S2.thrown THEN S2
                          ELSE notify(S2, "add", Deref(S2, newTask)))
    IN Saved(saveState(S1, "Dobavlenie raboty"))

add(S, task) ==
    LET newTask ==
            [id |-> S.nextId,
             type |-> OrStr(task, "type", ""),
             task |-> OrStr(task, "task", DefaultTitle),
             start |-> OrStr(task, "start", NowStart),
             end |-> OrStr(task, "end", NowEnd),
             progress |-> OrNum(task, "progress", 0),
             priority |-> OrStr(task, "priority", "medium"),
             milestone |-> OrBool(task, "milestone", FALSE),
             owner |-> OrStr(task, "owner", ""),
             dependencies |-> OrArr(task, "dependencies", <<>>),
             color |-> OrStr(task, "color",
                             TypeColorOr(S.types,
                                         IF Has(task, "type") THEN task.type
                                         ELSE "undefined",
                                         FallbackColor))]
        S1 == [S EXCEPT !.nextId = @ + 1, !.data = Append(@, newTask),
                        !.objects.live = @ \o NewObjects(S.objects, 1),
                        !.objects.next = @ + 1]
        Done(S3) == [S3 EXCEPT !.ret = IF S3.thrown THEN Threw
                                       ELSE RetTask(Deref(S3, newTask))]
        Saved(S2) == Done(IF S2.thrown THEN S2
                          ELSE notify(S2, "add", Deref(S2, newTask)))
    IN Saved(saveState(S1, "Dobavlenie raboty"))

\* Object.assign(task, fields)
Assign(task, fields) ==
    [f \in DOMAIN task \cup DOMAIN fields |->
        IF f \in DOMAIN fields THEN fields[f] ELSE task[f]]

update(S, id, fields) ==
    LET i == FindIndex(S.data, id)
    IN IF FindThrows(S.data, id) THEN Throwing(S)
       ELSE IF i /= 0
       THEN LET merged == Assign(S.data[i], fields)
                task == IF OrStr(fields, "type", "") /= ""
                           /\ OrStr(fields, "color", "") = ""
                        THEN [merged EXCEPT !.color =
                                 TypeColorOr(S.types, fields.type, @)]
                        ELSE merged
                S1 == Write(S, S.objects.live[i], task)
                Done(S3) == [S3 EXCEPT !.ret = IF S3.thrown THEN Threw
                                               ELSE RetTask(Deref(S3, task))]
                Saved(S2) == Done(IF S2.thrown THEN S2
                                  ELSE notify(S2, "update", Deref(S2, task)))
            IN Saved(saveState(S1, "Obnovlenie raboty"))
       ELSE [S EXCEPT !.ret = RetNull]

delete(S, id) ==
    LET index == FindIndex(S.data, id)
    IN IF FindThrows(S.data, id) THEN Throwing(S)
       ELSE IF index /= 0
       THEN LET deleted == S.data[index]
                S1 == [S EXCEPT !.data = RemoveAt(@, index),
                                !.objects.live = RemoveAt(@, index),
                                !.criticalTasks = SetDelete(@, id)]
                Done(S3) == [S3 EXCEPT !.ret = IF S3.thrown THEN Threw
                                               ELSE RetTask(deleted)]
                Saved(S2) == Done(IF S2.thrown THEN S2
                                  ELSE notify(S2, "delete", deleted))
            IN Saved(saveState(S1, "Udalenie raboty"))
       ELSE [S EXCEPT !.ret = RetNull]

\* { ...task, task: task.task + marker } without its id
WithoutId(task) == [f \in DOMAIN task \ {"id"} |-> task[f]]

duplicate(S, id) ==
    LET task == getById(S, id)
    IN IF FindThrows(S.data, id) THEN Throwing(S)
       ELSE IF task /= NoTask
       THEN add(S, WithoutId([task EXCEPT !.task = @ \o CopyMarker]))
       ELSE [S EXCEPT !.ret = RetNull]

\* ---- type registry ----
\* delete obj[key]
Without(obj, key) == [k \in DOMAIN obj \ {key} |-> obj[k]]
\* obj[key] = value
With(obj, key, value) ==
    [k \in DOMAIN obj \cup {key} |-> IF k = key THEN value ELSE obj[k]]
\* a spread that keeps the second object only
SpreadSecond(a, b) == b

\* { ...a, ...b }
Spread(a, b) ==
    [k \in DOMAIN a \cup DOMAIN b |-> IF k \in DOMAIN b THEN b[k] ELSE a[k]]

addType(S, name, color) ==
    LET Done(S1) == [S1 EXCEPT !.ret = IF S1.thrown THEN Threw ELSE RetVoid]
    IN Done(notify([S EXCEPT !.types = With(@, name, color)],
                   "types-change", NoPayload))

\* the forEach of updateType from entry i to entry last: t.type and
\* t.color are assigned on the task object itself
RECURSIVE Retype(_, _, _, _, _, _)
Retype(S, i, last, oldName, newName, color) ==
    IF i > last THEN S
    ELSE Retype(IF S.data[i].type = oldName
                THEN Write(S, S.objects.live[i],
                           [S.data[i] EXCEPT !.type = newName,
                                             !.color = color])
                ELSE S,
                i + 1, last, oldName, newName, color)

updateType(S, oldName, newName, color) ==
    LET \* the forEach stops at an entry that is no object (t.type throws)
        last == IF FirstBad(S.data) /= 0 THEN FirstBad(S.data) - 1
                ELSE Len(S.data)
        S1 == IF oldName /= newName
              THEN Retype([S EXCEPT !.types = Without(@, oldName)],
                          1, last, oldName, newName, color)
              ELSE S
        Done(S2) == [S2 EXCEPT !.ret = IF S2.thrown THEN Threw ELSE RetVoid]
    IN IF oldName /= newName /\ FirstBad(S.data) /= 0 THEN Throwing(S1)
       ELSE Done(notify([S1 EXCEPT !.types = With(@, newName, color)],
                        "types-change", NoPayload))

\* deleteType that records a snapshot like the task mutations do
deleteTypeSaved(S, name) ==
    LET Done(S1) == [S1 EXCEPT !.ret = IF S1.thrown THEN Threw ELSE RetVoid]
        Saved(S2) == Done(IF S2.thrown THEN S2
                          ELSE notify(S2, "types-change", NoPayload))
    IN Saved(saveState([S EXCEPT !.types = Without(@, name)],
                       "Udalenie tipa"))

deleteType(S, name) ==
    LET Done(S1) == [S1 EXCEPT !.ret = IF S1.thrown THEN Threw ELSE RetVoid]
    IN Done(notify([S EXCEPT !.types = Without(@, name)],
                   "types-change", NoPayload))

\* ---- drag and drop (Gantt.setupDragDrop) ----
\* parseInt(bar.style.left); the position is never negative
ParsePx(left) == left[1] \div left[2]

\* the mousedown listener of the bar of closure k
OnMouseDown(S, k, button, clientX) ==
    LET c == S.gantt.closures[k]
    IN IF button /= 0 THEN S
       ELSE [S EXCEPT !.gantt.closures[k] =
                [c EXCEPT !.isDragging = TRUE,
                          !.startX = clientX,
                          !.startLeft = ParsePx(c.left)]]

\* the mousemove listener closure k put on the document
OnMouseMove(S, k, clientX) ==
    LET c == S.gantt.closures[k]
        deltaX == clientX - c.startX
    IN IF ~c.isDragging THEN S
       ELSE [S EXCEPT !.gantt.closures[k].left =
                <<Max(0, c.startLeft + deltaX), 1>>]

\* what the mouseup listener of closure k does when it does not return at
\* its first line; task is the object renderBars passed to setupDragDrop,
\* which the task list still holds (the view is re-rendered whenever the
\* list gets new objects); offset is the offset of the local clock
Commit(S, k, offset) ==
    LET c == S.gantt.closures[k]
        task == getById(S, c.id)
        pxPerMin == S.gantt.pxPerMin
        currentLeft == ParsePx(c.left)
        deltaMinutes ==
            Round((currentLeft - c.startLeft) * pxPerMin[2], pxPerMin[1])
        newStart == parseDateTime(task.start) + deltaMinutes
        duration == parseDateTime(task.end) - parseDateTime(task.start)
        newEnd == newStart + duration
    IN update([S EXCEPT !.gantt.closures[k].isDragging = FALSE], task.id,
              [start |-> ToISOString(newStart, offset),
               end |-> ToISOString(newEnd, offset)])

\* a mouseup listener that does not look at isDragging
OnMouseUpAlways(S, k, offset) ==
    IF getById(S, S.gantt.closures[k].id) = NoTask THEN S
    ELSE Commit(S, k, offset)

\* the mouseup listener closure k put on the document
OnMouseUp(S, k, offset) ==
    IF ~S.gantt.closures[k].isDragging THEN S ELSE Commit(S, k, offset)

\* a mouse event on the document: the listeners registered when it is
\* dispatched run in their order of registration
RECURSIVE MouseMoveFrom(_, _, _, _)
MouseMoveFrom(S, k, n, clientX) ==
    IF k > n THEN S
    ELSE MouseMoveFrom(OnMouseMove(S, k, clientX), k + 1, n, clientX)

RECURSIVE MouseUpFrom(_, _, _, _)
MouseUpFrom(S, k, n, offset) ==
    IF k > n THEN S
    ELSE MouseUpFrom(OnMouseUp(S, k, offset), k + 1, n, offset)

\* ---- export ----
\* exportData: the object it returns, as importData reads it (exportedAt is
\* not read); its data is the live array itself, with the objects in it
exportData(S) ==
    [kind |-> "object", projectName |-> S.projectName, data |-> S.data,
     types |-> S.types, objects |-> S.objects.live]

\* importData that writes its snapshot onto the history it finds
importDataKeepsHistory(S, json) ==
    IF json.kind \in {"malformed", "null"}
    THEN [S EXCEPT !.ret = RetBool(FALSE)]
    ELSE
      LET isObj == json.kind = "object"
          S1 == IF isObj /\ OrStr(json, "projectName", "") /= ""
                THEN [S EXCEPT !.projectName = json.projectName] ELSE S
          S2 == IF isObj /\ Has(json, "types")
                THEN [S1 EXCEPT !.types = Spread(DEFAULT_TYPES, json.types)]
                ELSE S1
          hasData == (isObj /\ Has(json, "data")) \/ json.kind = "array"
          \* the objects of the blob: those exportData handed out, or the
          \* new ones JSON.parse made
          S3 == IF hasData
                THEN [S2 EXCEPT !.data = json.data,
                                !.objects.live =
                                    IF Has(json, "objects") THEN json.objects
                                    ELSE NewObjects(S2.objects,
                                                    Len(json.data)),
                                !.objects.next = @ + Len(json.data)]
                ELSE S2
      IN IF hasData /\ FirstBad(json.data) /= 0
         THEN \* reading t.id throws after this.data was assigned
              [S3 EXCEPT !.ret = RetBool(FALSE)]
         ELSE
           LET S4 == [S3 EXCEPT
                        !.nextId = IF hasData
                                   THEN MaxOf({t.id : t \in Range(json.data)}) + 1
                                   ELSE @]
               \* the catch block also catches what a subscriber throws
               Done(S6) ==
                   [S6 EXCEPT !.thrown = FALSE, !.ret = RetBool(~S6.thrown)]
               Saved(S5) == Done(IF S5.thrown THEN S5
                                 ELSE notify(S5, "import", NoPayload))
           IN Saved(saveState(S4, "Import dannyh"))

\* ---- import ----
\* json.kind: "malformed" (text JSON.parse rejects), "null", "object"
\* (fields projectName, types, data, each optional) or "array" (old format,
\* the task list itself in json.data)
importData(S, json) ==
    IF json.kind \in {"malformed", "null"}
    THEN [S EXCEPT !.ret = RetBool(FALSE)]
    ELSE
      LET isObj == json.kind = "object"
          S1 == IF isObj /\ OrStr(json, "projectName", "") /= ""
                THEN [S EXCEPT !.projectName = json.projectName] ELSE S
          S2 == IF isObj /\ Has(json, "types")
                THEN [S1 EXCEPT !.types = Spread(DEFAULT_TYPES, json.types)]
                ELSE S1
          hasData == (isObj /\ Has(json, "data")) \/ json.kind = "array"
          \* the objects of the blob: those exportData handed out, or the
          \* new ones JSON.parse made
          S3 == IF hasData
                THEN [S2 EXCEPT !.data = json.data,
                                !.objects.live =
                                    IF Has(json, "objects") THEN json.objects
                                    ELSE NewObjects(S2.objects,
                                                    Len(json.data)),
                                !.objects.next = @ + Len(json.data)]
                ELSE S2
      IN IF hasData /\ FirstBad(json.data) /= 0
         THEN \* reading t.id throws after this.data was assigned
              [S3 EXCEPT !.ret = RetBool(FALSE)]
         ELSE
           LET S4 == [S3 EXCEPT
                        !.nextId = IF hasData
                                   THEN MaxOf({t.id : t \in Range(json.data)}) + 1
                                   ELSE @,
                        !.history = <<>>,
                        !.objects.snaps = <<>>,
                        !.historyIndex = -1]
               \* the catch block also catches what a subscriber throws
               Done(S6) ==
                   [S6 EXCEPT !.thrown = FALSE, !.ret = RetBool(~S6.thrown)]
               Saved(S5) == Done(IF S5.thrown THEN S5
                                 ELSE notify(S5, "import", NoPayload))
           IN Saved(saveState(S4, "Import dannyh"))

(***************************************************************************)
(* Inputs of the calls.                                                    *)
(***************************************************************************)
\* arguments of add: a typed high-priority task, and a task that names task
\* 1 as its predecessor and carries an out-of-range progress
AddInputs ==
    {[type |-> "Montazh", task |-> "A", start |-> "2026-02-25T09:00",
      end |-> "2026-02-25T10:00", priority |-> "high"],
     [task |-> "B", start |-> "2026-02-25T10:00", end |-> "2026-02-25T11:30",
      priority |-> "low", dependencies |-> <<"1">>, progress |-> 150]}

\* patches of update (none carries an id)
UpdatePatches ==
    {[type |-> "Transport", progress |-> 50]}

\* ids handed to update / delete / duplicate: every id the store can have
\* assigned, and one more
Ids == 1..(MaxId + 1)
\* ids handed to toggleCritical
ToggledIds == {1}

\* arguments of the type-registry calls
TypeRenames == {<<"Montazh", "Installation", "#ffcc00">>,
                <<"Transport", "Transport", "#123456">>}
NewTypes == {<<"Custom", "#5da7ff">>}
DeletedTypes == {"Transport"}

\* a task as it appears in an exported blob
BlobTask(id, priority) ==
    [id |-> id, type |-> "Custom", task |-> "Imported",
     start |-> "2026-02-25T09:00", end |-> "2026-02-25T10:00",
     progress |-> 0, priority |-> priority, milestone |-> FALSE,
     owner |-> "", dependencies |-> <<>>, color |-> "#5da7ff"]

\* arguments of importData
ImportInputs ==
    {[kind |-> "malformed"],
     [kind |-> "object", projectName |-> "Cloud",
      data |-> <<BlobTask(2, "high")>>],
     [kind |-> "object", data |-> <<BlobTask(1, "low"), BadEntry>>]}

\* blobs handed to importData by the file dialog: a project with one task,
\* a project with an empty task list, and an object without a task list
ImportBlobs ==
    {[kind |-> "object", projectName |-> "Cloud",
      data |-> <<BlobTask(2, "high")>>],
     [kind |-> "object", data |-> <<>>],
     [kind |-> "object", projectName |-> "Renamed"]}

\* arguments of add and update that spread the dates: a task that ends
\* before it starts, a milestone that spans the whole day, an ordinary
\* task; patches that clear a date or move the start
SpanInputs ==
    {[task |-> "Late", start |-> "2026-02-25T11:00",
      end |-> "2026-02-25T08:00"],
     [task |-> "Day", start |-> "2026-02-25T06:00",
      end |-> "2026-02-25T23:00", milestone |-> TRUE],
     [task |-> "A", start |-> "2026-02-25T09:00",
      end |-> "2026-02-25T10:00"]}
SpanPatches ==
    {[start |-> ""], [end |-> ""], [start |-> "2026-02-25T12:00"]}

\* arguments of add and update that fill the rows of the timeline: a late
\* task, an early task that names task 1 and a task that does not exist as
\* its predecessors, a milestone; patches that clear the end or move the
\* start
RowInputs ==
    {[task |-> "Late", start |-> "2026-02-25T11:00",
      end |-> "2026-02-25T12:00"],
     [task |-> "Early", start |-> "2026-02-25T09:00",
      end |-> "2026-02-25T10:00", dependencies |-> <<"1", "5">>],
     [task |-> "Mile", start |-> "2026-02-25T06:00",
      end |-> "2026-02-25T06:00", milestone |-> TRUE]}
RowPatches ==
    {[end |-> ""], [start |-> "2026-02-25T08:00"]}

\* arguments of add and update that set the colour in every way: a task of
\* a registered type, of an unregistered type, with a colour of its own,
\* without a type; patches with a registered type, an unregistered type, a
\* type and a colour, and neither
ColorInputs ==
    {[type |-> "Montazh", task |-> "A"],
     [type |-> "Unknown", task |-> "B"],
     [task |-> "C", color |-> "#000000"],
     [task |-> "D"]}
ColorPatches ==
    {[type |-> "Montazh", progress |-> 50],
     [type |-> "Unknown"],
     [type |-> "Transport", color |-> "#111111"],
     [task |-> "Renamed"]}

\* the callbacks registered before the first call: none (a bare store), the
\* views of App.initMainApp in their order of registration, and the same
\* with a throwing callback between them
SubscriberSetups ==
    {<<>>,
     <<"table", "gantt", "app">>,
     <<"table", "thrower", "gantt">>}

\* mouse events: the button pressed, the pointer's clientX when the button
\* goes down and when it moves
Buttons == {0, 2}
PressX == 100
MouseXs == {PressX - 40, PressX, PressX + 1, PressX + 40}
\* the offset of the local clock from UTC, in minutes
TimeZoneOffsets == {0, 180, -300}

\* arguments of add for the critical path: a high-priority task, a task of
\* medium priority, a low-priority task that depends on task 1, a
\* low-priority task without dependencies and one that names an id no task
\* has
CriticalInputs ==
    {[task |-> "A", start |-> "2026-02-25T09:00", end |-> "2026-02-25T10:00",
      priority |-> "high"],
     [task |-> "A", start |-> "2026-02-25T09:00", end |-> "2026-02-25T10:00",
      priority |-> "medium"],
     [task |-> "B", start |-> "2026-02-25T10:00", end |-> "2026-02-25T11:30",
      priority |-> "low", dependencies |-> <<"1">>],
     [task |-> "C", priority |-> "low"],
     [task |-> "D", priority |-> "low", dependencies |-> <<"5">>]}

\* arguments of filter: no option, each option alone and combinations
FilterOptions ==
    {[search |-> ""],
     [search |-> "MONT"],
     [search |-> "a", priority |-> "low"],
     [type |-> "Montazh"],
     [priority |-> "low"],
     [criticalOnly |-> TRUE],
     [type |-> "Custom", priority |-> "high", criticalOnly |-> TRUE]}

\* subscribers that change the subscriptions, next to the views
SubscribingSetups ==
    {<<"joiner", "table">>,
     <<"table", "leaver", "app">>,
     <<"bouncer", "table", "gantt">>,
     <<"leaver", "joiner", "bouncer", "table">>}

\* subscribers that call back into the store, alone and next to the views
ReentrantSetups ==
    {<<"reUpdate">>,
     <<"reDelete", "table">>,
     <<"table", "reAdd">>,
     <<"table", "reUpdate", "gantt">>}

(***************************************************************************)
(* The state machine.                                                      *)
(***************************************************************************)
DefaultProjectName == "Moy proekt"

\* what a caller can compare the outcome of a call with: the live state,
\* the cursor and the number of snapshots before the call
Before == [live |-> Live, historyIndex |-> historyIndex,
           length |-> Len(history)]

(***************************************************************************)
(* Cloud sync: App.loadFromCloud and App.saveToCloud.  Each is an async    *)
(* function: it runs to its await, and runs on when the request settles.   *)
(***************************************************************************)
\* what `await api.load()` can give: the promise rejects, or resolves with
\* the task list and the project name of the stored blob
LoadOutcomes ==
    {[kind |-> "rejected"],
     [kind |-> "resolved", data |-> <<>>, projectName |-> "Cloud"],
     [kind |-> "resolved", data |-> <<BlobTask(2, "high")>>,
      projectName |-> "Cloud"],
     [kind |-> "resolved", data |-> <<BlobTask(1, "low")>>]}
\* what `await api.save(...)` can give
SaveOutcomes == {"rejected", "resolved"}

\* loadFromCloud up to its await
loadFromCloud(S) ==
    [S EXCEPT !.pending = Append(@, [op |-> "load"]), !.ret = RetVoid]

\* on rejection the store is reset to an empty project
loadSettledReset(S, outcome) ==
    [importData(S, [kind |-> "object",
                    data |-> IF outcome.kind = "resolved" THEN outcome.data
                             ELSE <<>>])
        EXCEPT !.ret = RetVoid]

\* loadFromCloud after its await: a non-empty list is imported; the catch
\* block logs and shows a toast
loadSettled(S, outcome) ==
    IF outcome.kind = "resolved" /\ Len(outcome.data) > 0
    THEN LET json == IF Has(outcome, "projectName")
                     THEN [kind |-> "object", data |-> outcome.data,
                           projectName |-> outcome.projectName]
                     ELSE [kind |-> "object", data |-> outcome.data]
         IN [importData(S, json) EXCEPT !.ret = RetVoid]
    ELSE [S EXCEPT !.ret = RetVoid]

\* saveToCloud up to its await: the arguments are store.getAll(), a new
\* array of the live task objects, and store.getProjectName()
saveToCloud(S) ==
    [S EXCEPT !.pending = Append(@, [op |-> "save", data |-> S.data,
                                     projectName |-> S.projectName]),
              !.ret = RetVoid]

\* saveToCloud after its await: true, or false from the catch block
saveSettled(S, outcome) == [S EXCEPT !.ret = RetBool(outcome = "resolved")]

\* the page before any message: the save button enabled, the share modal
\* closed
NewApp == [toasts |-> <<>>, saving |-> FALSE, shareModal |-> FALSE]

\* showToast(message, type), called for save request n
showToast(S, message, type, n) ==
    [S EXCEPT !.app.toasts = Append(@, [message |-> message, type |-> type,
                                        save |-> n])]

\* a caller's call of saveToCloud: the request in flight remembers who
\* called (by) and its number n
Called(S, by, n) ==
    LET S1 == saveToCloud(S)
        req == S1.pending[Len(S1.pending)]
    IN [S1 EXCEPT !.pending = Append(S.pending,
                                     [op |-> req.op, data |-> req.data,
                                      projectName |-> req.projectName,
                                      by |-> by, n |-> n])]

\* handleSave up to its await: the save button is disabled
handleSave(S, n) == [Called(S, "button", n) EXCEPT !.app.saving = TRUE]

\* handleSave after its await: the button is enabled again and the toast
\* says what saveToCloud returned
handleSaveSettled(S, n, outcome) ==
    LET S1 == [saveSettled(S, outcome) EXCEPT !.app.saving = FALSE]
    IN [(IF S1.ret.val THEN showToast(S1, "Sokhraneno v oblako!", "success", n)
         ELSE showToast(S1, "Oshibka sokhraneniya", "error", n))
           EXCEPT !.ret = RetVoid]

\* handleShare up to its await
handleShare(S, n) == Called(S, "share", n)

\* handleShare after its await: an error toast, or the share modal opens
\* and copyShareLink shows its toast
handleShareSettled(S, n, outcome) ==
    LET S1 == saveSettled(S, outcome)
    IN [(IF ~S1.ret.val THEN showToast(S1, "Oshibka sokhraneniya", "error", n)
         ELSE showToast([S1 EXCEPT !.app.shareModal = TRUE],
                        "Ssylka skopirovana!", "success", n))
           EXCEPT !.ret = RetVoid]

\* handleKeyboard(e) for the keys s and Escape: Ctrl+S calls saveToCloud,
\* does not await it and shows the toast; Escape closes the share modal
handleKeyboard(S, e, n) ==
    IF e.tagName \in {"INPUT", "TEXTAREA", "SELECT"}
    THEN [S EXCEPT !.ret = RetVoid]
    ELSE LET S1 == IF e.ctrlKey /\ e.key = "s"
                   THEN showToast(Called(S, "key", n),
                                  "Sokhraneno v oblako", "success", n)
                   ELSE S
         IN [S1 EXCEPT !.app.shareModal = IF e.key = "Escape" THEN FALSE ELSE @,
                       !.ret = RetVoid]

\* the promise saveToCloud returned to handleKeyboard settles: nobody
\* waits for it
droppedSettled(S, outcome) == [saveSettled(S, outcome) EXCEPT !.ret = RetVoid]

\* the result of a call in one word
Res(r) == IF r.kind = "bool" THEN (IF r.val THEN "true" ELSE "false")
          ELSE r.kind

Init ==
    /\ data = <<>>
    /\ nextId = 1
    /\ types = DEFAULT_TYPES
    /\ history = <<>>
    /\ historyIndex = -1
    /\ criticalTasks = <<>>
    /\ projectName = DefaultProjectName
    /\ subscribers \in SubscriberSetups
    /\ gantt = NewGantt
    /\ objects = NoObjects
    /\ pending = <<>>
    /\ renders = <<>>
    /\ tableRenders = <<>>
    /\ app = NewApp
    /\ calls = <<>>
    /\ ret = RetVoid
    /\ before = Before
    /\ steps = 0
    /\ log = <<>>
    /\ dispatches = <<>>
    /\ assigned = {}

\* the window of recent calls
Remember(cs, c) == IF Len(cs) < 2 THEN Append(cs, c) ELSE Append(Tail(cs), c)

\* a call of method op has run and left the store as S
Returns(op, S) ==
    /\ data' = S.data
    /\ nextId' = S.nextId
    /\ types' = S.types
    /\ history' = S.history
    /\ historyIndex' = S.historyIndex
    /\ criticalTasks' = S.criticalTasks
    /\ projectName' = S.projectName
    /\ subscribers' = S.subscribers
    /\ log' = S.log
    /\ dispatches' = S.dispatches
    /\ gantt' = Prune(S.gantt)
    /\ objects' = Canonical(S.objects)
    /\ renders' = S.renders
    /\ tableRenders' = S.tableRenders
    /\ app' = S.app
    /\ pending' = S.pending
    /\ calls' = Remember(calls, [op |-> op, res |-> Res(S.ret),
                                 redoable |-> canRedo(Store)])
    /\ ret' = S.ret
    /\ before' = Before
    /\ assigned' = IF op \in {"add", "duplicate"}
                      /\ Len(S.data) = Len(data) + 1
                   THEN assigned \cup {S.data[Len(S.data)].id} ELSE assigned

Add ==
    /\ nextId <= MaxId
    /\ \E task \in AddInputs : Returns("add", add(Store, task))

Update ==
    \E id \in Ids, fields \in UpdatePatches :
        Returns("update", update(Store, id, fields))

Delete ==
    \E id \in Ids : Returns("delete", delete(Store, id))

Duplicate ==
    /\ nextId <= MaxId
    /\ \E id \in Ids : Returns("duplicate", duplicate(Store, id))

Undo == Returns("undo", undo(Store))

Redo == Returns("redo", redo(Store))

CalculateCriticalPath ==
    Returns("calculateCriticalPath", calculateCriticalPath(Store))

ToggleCritical ==
    \E id \in ToggledIds : Returns("toggleCritical", toggleCritical(Store, id))

AddType ==
    \E t \in NewTypes : Returns("addType", addType(Store, t[1], t[2]))

UpdateType ==
    \E t \in TypeRenames :
        Returns("updateType", updateType(Store, t[1], t[2], t[3]))

DeleteType ==
    \E name \in DeletedTypes :
        Returns("deleteType", deleteType(Store, name))

ImportData ==
    \E json \in ImportInputs :
        Returns("importData", importData(Store, json))

\* store.importData(store.exportData())
ExportImport ==
    Returns("exportImport", importData(Store, exportData(Store)))

ImportBlob ==
    \E json \in ImportBlobs : Returns("importData", importData(Store, json))

Filter ==
    \E options \in FilterOptions : Returns("filter", filter(Store, options))

AddCritical ==
    /\ nextId <= MaxCritId
    /\ \E task \in CriticalInputs : Returns("add", add(Store, task))

\* ---- the page ----
\* no bar is being dragged
Idle == \A k \in 1..Len(gantt.closures) : ~gantt.closures[k].isDragging

\* the primary button goes down only when it is up
MouseDown ==
    \E k \in 1..Len(gantt.closures), button \in Buttons :
        /\ gantt.closures[k].attached
        /\ button = 0 => Idle
        /\ Returns("mousedown", OnMouseDown(Store, k, button, PressX))

MouseMove ==
    \E clientX \in MouseXs :
        Returns("mousemove",
                MouseMoveFrom(Store, 1, Len(gantt.closures), clientX))

MouseUp ==
    \E offset \in TimeZoneOffsets :
        Returns("mouseup",
                [MouseUpFrom(Store, 1, Len(gantt.closures), offset)
                    EXCEPT !.ret = RetVoid])

\* the zoom select changes
ZoomChange ==
    \E hoursPerScreen \in ZoomValues :
        Returns("zoom",
                GanttRender([Store EXCEPT
                                !.gantt.hoursPerScreen = hoursPerScreen]))

AddRow ==
    /\ nextId <= MaxId
    /\ \E task \in RowInputs : Returns("add", add(Store, task))

UpdateRow ==
    \E id \in Ids, fields \in RowPatches :
        Returns("update", update(Store, id, fields))

AddSpan ==
    /\ nextId <= MaxId
    /\ \E task \in SpanInputs : Returns("add", add(Store, task))

UpdateSpan ==
    \E id \in Ids, fields \in SpanPatches :
        Returns("update", update(Store, id, fields))

\* gantt.chooseTickInterval(m): the first call for any span, the next
\* for the span one minute longer
ChooseTickInterval ==
    \E m \in IF ret.kind = "number" THEN {ret.arg + 1} \cap SpanMinutes
             ELSE SpanMinutes :
        Returns("chooseTickInterval",
                [Store EXCEPT !.ret = RetNumber(m, chooseTickInterval(m))])

AddColor ==
    /\ nextId <= MaxId
    /\ \E task \in ColorInputs : Returns("add", add(Store, task))

UpdateColor ==
    \E id \in Ids, fields \in ColorPatches :
        Returns("update", update(Store, id, fields))

\* ---- cloud sync ----
LoadFromCloud ==
    /\ Len(pending) < MaxPending
    /\ Returns("loadFromCloud", loadFromCloud(Store))

\* a load in flight settles
LoadSettles ==
    \E k \in 1..Len(pending), outcome \in LoadOutcomes :
        /\ pending[k].op = "load"
        /\ Returns(IF outcome.kind = "rejected" THEN "loadRejected"
                   ELSE "loadResolved",
                   loadSettled([Store EXCEPT !.pending = RemoveAt(@, k)],
                               outcome))

SaveToCloud ==
    /\ Len(pending) < MaxPending
    /\ Returns("saveToCloud", saveToCloud(Store))

\* a save in flight settles
SaveSettles ==
    \E k \in 1..Len(pending), outcome \in SaveOutcomes :
        /\ pending[k].op = "save"
        /\ Returns(IF outcome = "rejected" THEN "saveRejected"
                   ELSE "saveResolved",
                   saveSettled([Store EXCEPT !.pending = RemoveAt(@, k)],
                               outcome))

\* the keydown events: Ctrl+S on the page and in a field, a plain s, Escape
KeyEvents ==
    {[tagName |-> "BODY", ctrlKey |-> TRUE, key |-> "s"],
     [tagName |-> "INPUT", ctrlKey |-> TRUE, key |-> "s"],
     [tagName |-> "BODY", ctrlKey |-> FALSE, key |-> "s"],
     [tagName |-> "BODY", ctrlKey |-> FALSE, key |-> "Escape"]}

\* a click on the save button, which handleSave disables while it waits
HandleSave ==
    /\ Len(pending) < MaxPending
    /\ ~app.saving
    /\ Returns("handleSave", handleSave(Store, steps + 1))

HandleShare ==
    /\ Len(pending) < MaxPending
    /\ Returns("handleShare", handleShare(Store, steps + 1))

HandleKeyboard ==
    /\ Len(pending) < MaxPending
    /\ \E e \in KeyEvents :
           Returns("handleKeyboard", handleKeyboard(Store, e, steps + 1))

\* a save a handler started settles, and the handler runs on
SaveReturns ==
    \E k \in 1..Len(pending), outcome \in SaveOutcomes :
        /\ pending[k].op = "save"
        /\ LET S == [Store EXCEPT !.pending = RemoveAt(@, k)]
               req == pending[k]
           IN Returns(IF outcome = "rejected" THEN "saveRejected"
                      ELSE "saveResolved",
                      CASE req.by = "button" ->
                               handleSaveSettled(S, req.n, outcome)
                        [] req.by = "share" ->
                               handleShareSettled(S, req.n, outcome)
                        [] OTHER -> droppedSettled(S, outcome))

\* a call counted against the budget of Spec
Counted == steps < MaxCalls /\ steps' = steps + 1
\* a call counted against the budget of SpecHist
CountedHist == steps < MaxHistCalls /\ steps' = steps + 1
\* an event counted against the budget of SpecDrag
CountedDrag == steps < MaxDragEvents /\ steps' = steps + 1
\* a call counted against the budget of SpecPort
CountedPort == steps < MaxPortCalls /\ steps' = steps + 1
\* a call counted against the budget of SpecQuery
CountedQuery == steps < MaxQueryCalls /\ steps' = steps + 1
\* a call counted against the budget of SpecCrit
CountedCrit == steps < MaxCritCalls /\ steps' = steps + 1
\* a call or a settled request counted against the budget of SpecCloud
CountedCloud == steps < MaxCloudSteps /\ steps' = steps + 1
\* a call or an event counted against the budget of SpecBounds
CountedBounds == steps < MaxBoundsSteps /\ steps' = steps + 1
\* a call counted against the budget of SpecTick
CountedRows == steps < MaxRowSteps /\ steps' = steps + 1

CountedImport == steps < MaxImportSteps /\ steps' = steps + 1

CountedTable == steps < MaxTableSteps /\ steps' = steps + 1
\* an event or a settled save counted against the budget of SpecSave
CountedSave == steps < MaxSaveSteps /\ steps' = steps + 1

CountedTick == steps < MaxTickCalls /\ steps' = steps + 1
\* a call counted against the budget of SpecColor
CountedColor == steps < MaxColorCalls /\ steps' = steps + 1
\* a call that is not counted
Free == UNCHANGED steps

\* every sequence of at most MaxCalls calls of the Store's methods
Next ==
    \/ Counted /\ Add
    \/ Counted /\ Update
    \/ Counted /\ Delete
    \/ Counted /\ Duplicate
    \/ Counted /\ Undo
    \/ Counted /\ Redo
    \/ Counted /\ CalculateCriticalPath
    \/ Counted /\ ToggleCritical
    \/ Counted /\ AddType
    \/ Counted /\ UpdateType
    \/ Counted /\ DeleteType
    \/ Counted /\ ImportData

Spec == Init /\ [][Next]_vars

\* every sequence of at most MaxHistCalls calls of the methods that write or
\* walk the history
NextHist ==
    \/ CountedHist /\ Add
    \/ CountedHist /\ Update
    \/ CountedHist /\ Delete
    \/ CountedHist /\ Duplicate
    \/ CountedHist /\ Undo
    \/ CountedHist /\ Redo

SpecHist == Init /\ [][NextHist]_vars

\* a store whose subscribers call back into it
InitRe ==
    /\ data = <<>>
    /\ nextId = 1
    /\ types = DEFAULT_TYPES
    /\ history = <<>>
    /\ historyIndex = -1
    /\ criticalTasks = <<>>
    /\ projectName = DefaultProjectName
    /\ subscribers \in ReentrantSetups
    /\ gantt = NewGantt
    /\ objects = NoObjects
    /\ pending = <<>>
    /\ renders = <<>>
    /\ tableRenders = <<>>
    /\ app = NewApp
    /\ calls = <<>>
    /\ ret = RetVoid
    /\ before = Before
    /\ steps = 0
    /\ log = <<>>
    /\ dispatches = <<>>
    /\ assigned = {}

\* a store whose subscribers change the subscriptions
InitSub ==
    /\ data = <<>>
    /\ nextId = 1
    /\ types = DEFAULT_TYPES
    /\ history = <<>>
    /\ historyIndex = -1
    /\ criticalTasks = <<>>
    /\ projectName = DefaultProjectName
    /\ subscribers \in SubscribingSetups
    /\ gantt = NewGantt
    /\ objects = NoObjects
    /\ pending = <<>>
    /\ renders = <<>>
    /\ tableRenders = <<>>
    /\ app = NewApp
    /\ calls = <<>>
    /\ ret = RetVoid
    /\ before = Before
    /\ steps = 0
    /\ log = <<>>
    /\ dispatches = <<>>
    /\ assigned = {}

\* every sequence of at most MaxCalls calls of the methods that write or
\* walk the history
NextRe ==
    \/ Counted /\ Add
    \/ Counted /\ Update
    \/ Counted /\ Delete
    \/ Counted /\ Duplicate
    \/ Counted /\ Undo
    \/ Counted /\ Redo

SpecRe == InitRe /\ [][NextRe]_vars

SpecSub == InitSub /\ [][NextRe]_vars

\* the page of App.initMainApp: the table, the Gantt view and the app
\* listen to the store
InitDrag ==
    /\ data = <<>>
    /\ nextId = 1
    /\ types = DEFAULT_TYPES
    /\ history = <<>>
    /\ historyIndex = -1
    /\ criticalTasks = <<>>
    /\ projectName = DefaultProjectName
    /\ subscribers = <<"table", "gantt", "app">>
    /\ gantt = NewGantt
    /\ objects = NoObjects
    /\ pending = <<>>
    /\ renders = <<>>
    /\ tableRenders = <<>>
    /\ app = NewApp
    /\ calls = <<>>
    /\ ret = RetVoid
    /\ before = Before
    /\ steps = 0
    /\ log = <<>>
    /\ dispatches = <<>>
    /\ assigned = {}

\* every sequence of at most MaxDragEvents events: tasks are added, the
\* zoom changes and undo is called between drag gestures, bars are pressed,
\* the pointer moves, a button is released
NextDrag ==
    \/ CountedDrag /\ Idle /\ Add
    \/ CountedDrag /\ Idle /\ Undo
    \/ CountedDrag /\ Idle /\ ZoomChange
    \/ CountedDrag /\ MouseDown
    \/ CountedDrag /\ MouseMove
    \/ CountedDrag /\ MouseUp

SpecDrag == InitDrag /\ [][NextDrag]_vars

\* every sequence of at most MaxPortCalls calls that change the task list
\* or the type registry, import a blob or import what exportData returns
NextPort ==
    \/ CountedPort /\ Add
    \/ CountedPort /\ Delete
    \/ CountedPort /\ AddType
    \/ CountedPort /\ UpdateType
    \/ CountedPort /\ DeleteType
    \/ CountedPort /\ ImportData
    \/ CountedPort /\ ExportImport

SpecPort == Init /\ [][NextPort]_vars

\* every sequence of at most MaxQueryCalls calls that fill the task list,
\* mark tasks critical or filter the list
NextQuery ==
    \/ CountedQuery /\ Add
    \/ CountedQuery /\ ToggleCritical
    \/ CountedQuery /\ ImportData
    \/ CountedQuery /\ Filter

SpecQuery == Init /\ [][NextQuery]_vars

\* the user edits while loads and saves are in flight
NextCloud ==
    \/ CountedCloud /\ Add
    \/ CountedCloud /\ Update
    \/ CountedCloud /\ Undo
    \/ CountedCloud /\ LoadFromCloud
    \/ CountedCloud /\ LoadSettles
    \/ CountedCloud /\ SaveToCloud
    \/ CountedCloud /\ SaveSettles

SpecCloud == Init /\ [][NextCloud]_vars

\* tasks with any dates are added and edited, and the timeline redrawn
NextBounds ==
    \/ CountedBounds /\ AddSpan
    \/ CountedBounds /\ UpdateSpan
    \/ CountedBounds /\ ZoomChange

SpecBounds == Init /\ [][NextBounds]_vars

\* tasks are added, edited and deleted on the page of App.initMainApp, and
\* the timeline redrawn
NextRows ==
    \/ CountedRows /\ AddRow
    \/ CountedRows /\ UpdateRow
    \/ CountedRows /\ Delete

SpecRows == InitDrag /\ [][NextRows]_vars

\* tasks are added, edited and deleted and the history walked on the page
\* of App.initMainApp, where the table subscribed before the timeline
NextTable ==
    \/ CountedTable /\ Add
    \/ CountedTable /\ Update
    \/ CountedTable /\ Delete
    \/ CountedTable /\ Undo
    \/ CountedTable /\ Redo

SpecTable == InitDrag /\ [][NextTable]_vars

\* the user edits and saves by the button, the share button and Ctrl+S,
\* and the saves settle in any order
NextSave ==
    \/ CountedSave /\ Add
    \/ CountedSave /\ HandleSave
    \/ CountedSave /\ HandleShare
    \/ CountedSave /\ HandleKeyboard
    \/ CountedSave /\ SaveReturns

SpecSave == InitDrag /\ [][NextSave]_vars

\* the calls that write or walk the history, on a fresh store; steps
\* counts the mutations carried out (saveState ran) less the undo() calls
\* that returned true
Mutation ==
    /\ steps < MaxUndoable
    /\ steps' = IF dispatches' /= <<>> THEN steps + 1 ELSE steps
Undoing ==
    steps' = IF calls'[Len(calls')].res = "true" THEN steps - 1 ELSE steps
NextFresh ==
    \/ Add /\ Mutation
    \/ Update /\ Mutation
    \/ Delete /\ Mutation
    \/ Duplicate /\ Mutation
    \/ Undo /\ Undoing

SpecFresh == Init /\ [][NextFresh]_vars

\* the user edits, walks the history, imports a file and loads from the
\* cloud
NextImport ==
    \/ CountedImport /\ Add
    \/ CountedImport /\ Update
    \/ CountedImport /\ Undo
    \/ CountedImport /\ Redo
    \/ CountedImport /\ ImportBlob
    \/ CountedImport /\ LoadFromCloud
    \/ CountedImport /\ LoadSettles

SpecImport == Init /\ [][NextImport]_vars

\* chooseTickInterval over 0..MaxSpanMinutes
NextTick == CountedTick /\ ChooseTickInterval

SpecTick == Init /\ [][NextTick]_vars

\* tasks are added and patched while types leave the registry
NextColor ==
    \/ CountedColor /\ AddColor
    \/ CountedColor /\ UpdateColor
    \/ CountedColor /\ DeleteType
    \/ CountedColor /\ ImportData

SpecColor == Init /\ [][NextColor]_vars

\* a bare store and the page of App.initMainApp
InitCrit ==
    /\ data = <<>>
    /\ nextId = 1
    /\ types = DEFAULT_TYPES
    /\ history = <<>>
    /\ historyIndex = -1
    /\ criticalTasks = <<>>
    /\ projectName = DefaultProjectName
    /\ subscribers \in {<<>>, <<"table", "gantt", "app">>}
    /\ gantt = NewGantt
    /\ objects = NoObjects
    /\ pending = <<>>
    /\ renders = <<>>
    /\ tableRenders = <<>>
    /\ app = NewApp
    /\ calls = <<>>
    /\ ret = RetVoid
    /\ before = Before
    /\ steps = 0
    /\ log = <<>>
    /\ dispatches = <<>>
    /\ assigned = {}

\* every sequence of at most MaxCritCalls calls that add a task, toggle a
\* task's critical mark or compute the critical path
NextCrit ==
    \/ CountedCrit /\ AddCritical
    \/ CountedCrit /\ ToggleCritical
    \/ CountedCrit /\ CalculateCriticalPath

SpecCrit == InitCrit /\ [][NextCrit]_vars

\* every sequence of add, update and delete calls
NextMut ==
    \/ Free /\ Add
    \/ Free /\ Update
    \/ Free /\ Delete

SpecMut == Init /\ [][NextMut]_vars

(***************************************************************************)
(* What the last calls were.                                               *)
(***************************************************************************)
NoCall == [op |-> "none", res |-> "none", redoable |-> FALSE]
LastCall == IF calls = <<>> THEN NoCall ELSE calls[Len(calls)]
PrevCall == IF Len(calls) < 2 THEN NoCall ELSE calls[1]

\* the methods that record a snapshot of a task change
Mutators == {"add", "update", "delete", "duplicate"}

\* the snapshot under the cursor
Current == history[historyIndex + 1]

\* the step is a call of method op
Calls(op) == calls' /= <<>> /\ calls'[Len(calls')].op = op
\* the result, in one word, of the call the step makes
Result == calls'[Len(calls')].res

(***************************************************************************)
(* C1: in every sequence of add / update / delete (and duplicate, undo,    *)
(* redo) calls, a redo() that immediately follows an undo() that returned  *)
(* true returns true and leaves the live state (task list, next-id         *)
(* counter, critical-id set) equal to the live state just before that      *)
(* undo().                                                                 *)
(***************************************************************************)
C1_UndoRedoRoundTrip ==
    [][(LastCall.op = "undo" /\ LastCall.res = "true" /\ Calls("redo"))
         => (ret' = RetBool(TRUE) /\ Live' = before.live)]_vars

\* an undo that returned true, then a redo, on a store that holds tasks
C1_Witness ==
    /\ PrevCall.op = "undo" /\ PrevCall.res = "true"
    /\ LastCall.op = "redo" /\ LastCall.res = "true"
    /\ Len(data) = 2

(***************************************************************************)
(* C2: a mutating call (add, update, delete, duplicate) that takes effect  *)
(* leaves no snapshot after the cursor, whatever undo() calls came before  *)
(* it: a redo() issued right after it returns false, changes nothing in    *)
(* the store and invokes no subscriber.                                    *)
(***************************************************************************)
C2_BranchPruned ==
    [][(LastCall.op \in Mutators /\ LastCall.res = "task")
         => /\ historyIndex = Len(history) - 1
            /\ Calls("redo")
                 => (ret' = RetBool(FALSE) /\ UNCHANGED storeVars
                     /\ log' = <<>>)]_vars

\* undo(); add(x); redo(): the add started with a redo available, the redo
\* after it returned false
C2_Witness ==
    /\ PrevCall.op \in Mutators /\ PrevCall.res = "task" /\ PrevCall.redoable
    /\ LastCall.op = "redo" /\ LastCall.res = "false"

(***************************************************************************)
(* C3, as claimed: in every reachable state historyIndex is -1 exactly     *)
(* when the history is empty, and otherwise the snapshot under the cursor  *)
(* equals the live state (task list, next-id counter, critical-id set).    *)
(***************************************************************************)
C3_Original ==
    /\ historyIndex = -1 <=> history = <<>>
    /\ history /= <<>> => SnapLive(Current.state) = Live

(***************************************************************************)
(* C3, amended: in every reachable state historyIndex is -1 exactly when   *)
(* the history is empty and otherwise points at a snapshot holding the     *)
(* live next-id counter; right after an add, update, delete, duplicate,    *)
(* undo, redo or importData that returned a task or true, the snapshot     *)
(* under the cursor holds the live task list, and the live critical set    *)
(* unless the Gantt view is subscribed, in which case the live critical    *)
(* set is the one calculateCriticalPath yields for the live task list.     *)
(***************************************************************************)
Snapshotting == Mutators \cup {"undo", "redo", "importData"}

C3_CursorSnapshot ==
    /\ historyIndex = -1 <=> history = <<>>
    /\ history /= <<>> =>
         /\ historyIndex \in 0..(Len(history) - 1)
         /\ Current.state.nextId = nextId
    /\ (LastCall.op \in Snapshotting /\ LastCall.res \in {"task", "true"}) =>
         /\ Current.state.data = data
         /\ IF "gantt" \in Range(subscribers)
            THEN criticalTasks = calculateCriticalPath(Store).criticalTasks
            ELSE Range(Current.state.criticalTasks) = Range(criticalTasks)

\* an undo has put the cursor on a snapshot that is not the newest one, on
\* a store whose critical set was not empty when the snapshot was written
C3_Witness ==
    /\ LastCall.op = "undo" /\ LastCall.res = "true"
    /\ historyIndex < Len(history) - 1
    /\ Current.state.criticalTasks /= <<>>
    /\ SnapLive(Current.state) = Live

(***************************************************************************)
(* C4: after every call that ran saveState (add, update, delete or         *)
(* duplicate that found its task), historyIndex is history.length - 1 and  *)
(* the snapshot there is the one just written: the task list and next-id   *)
(* counter the call produced and the critical set it held when saveState   *)
(* ran.  This covers the calls made with a full history (the oldest        *)
(* snapshot is evicted) and those made after undo moved the cursor back.   *)
(***************************************************************************)
C4_CursorAtNewest ==
    (LastCall.op \in Mutators /\ LastCall.res \in {"task", "threw"}) =>
        /\ historyIndex = Len(history) - 1
        /\ history[Len(history)].state.data = data
        /\ history[Len(history)].state.nextId = nextId
        /\ LastCall.res = "task" =>
             Range(history[Len(history)].state.criticalTasks)
               = before.live.criticalTasks
                   \ (IF LastCall.op = "delete" THEN {ret.task.id} ELSE {})

\* a snapshot was written when the history was full with the cursor on the
\* newest snapshot: the oldest one was evicted
C4_Witness ==
    /\ LastCall.op \in Mutators /\ LastCall.res = "task"
    /\ before.length = maxHistory
    /\ before.historyIndex = maxHistory - 1
    /\ PrevCall.op \in Mutators

(***************************************************************************)
(* C5: the history never holds more than maxHistory snapshots; a snapshot  *)
(* appended to a full history (cursor on the newest snapshot) removes      *)
(* exactly the oldest one and keeps the others in their order.             *)
(***************************************************************************)
C5_HistoryBounded ==
    [][/\ Len(history) <= maxHistory
       /\ Len(history') <= maxHistory
       /\ (/\ Len(history) = maxHistory
           /\ historyIndex = maxHistory - 1
           /\ \E op \in Mutators : Calls(op)
           /\ Result \in {"task", "threw"})
            => /\ Len(history') = maxHistory
               /\ SubSeq(history', 1, maxHistory - 1) = Tail(history)]_vars

\* an update on a full history has evicted the oldest snapshot
C5_Witness ==
    /\ LastCall.op = "update" /\ LastCall.res = "task"
    /\ before.length = maxHistory
    /\ before.historyIndex = maxHistory - 1
    /\ Len(history) = maxHistory

(***************************************************************************)
(* C6, as claimed: no task id is assigned twice: the id add or duplicate   *)
(* gives to the task it creates differs from every id given before,        *)
(* including after undo() restored an earlier snapshot.                    *)
(***************************************************************************)
\* the step creates a task (the last of the new task list)
Creates ==
    /\ Calls("add") \/ Calls("duplicate")
    /\ Len(data') = Len(data) + 1
\* the id the step gives to the task it creates
GivenId == data'[Len(data')].id

C6_Original == [][Creates => GivenId \notin assigned]_vars

(***************************************************************************)
(* C7: in every sequence of add, update and delete calls, each add gives   *)
(* its task an id strictly greater than every id given before, also when   *)
(* the task holding the largest id was deleted.                            *)
(***************************************************************************)
C7_IdsIncrease ==
    [][Creates => /\ \A i \in assigned : GivenId > i
                  /\ Result = "task" => ret'.task.id = GivenId]_vars

\* delete(maxId); add(y): task 1, the only task, was deleted and the add
\* that followed returned id 2
C7_Witness ==
    /\ PrevCall.op = "delete" /\ PrevCall.res = "task"
    /\ LastCall.op = "add" /\ LastCall.res = "task"
    /\ ret.task.id = 2
    /\ assigned = {1, 2}
    /\ Len(data) = 1

(***************************************************************************)
(* C8, as claimed: update(id, fields) and delete(id) with an id that       *)
(* matches no live task return null, leave the task list, the critical     *)
(* set, history, historyIndex and next-id counter unchanged and invoke no  *)
(* subscriber.                                                             *)
(***************************************************************************)
\* the call that left the store as S returned null and did nothing
NoOp(S) ==
    /\ S.ret = RetNull
    /\ S.data = data
    /\ S.criticalTasks = criticalTasks
    /\ S.history = history
    /\ S.historyIndex = historyIndex
    /\ S.nextId = nextId
    /\ S.log = <<>>

C8_Original ==
    \A id \in Ids :
        (\A i \in 1..Len(data) : ~IdIs(data[i], id)) =>
            /\ \A fields \in UpdatePatches : NoOp(update(Store, id, fields))
            /\ NoOp(delete(Store, id))

(***************************************************************************)
(* C9: undo() with the cursor on the oldest snapshot (or an empty history) *)
(* and redo() with the cursor on the newest one return false, leave the    *)
(* store unchanged and invoke no subscriber; otherwise they move the       *)
(* cursor by exactly one, keep the history, restore the task list and      *)
(* next-id counter of the snapshot now under the cursor (and its critical  *)
(* set, which only a subscribed Gantt view then recomputes) and dispatch   *)
(* 'undo' or 'redo' once.                                                  *)
(***************************************************************************)
\* one dispatch of action: the subscribers are invoked in their order, each
\* once, up to the first that throws
DispatchedOnce(action) ==
    /\ \A j \in 1..Len(log') : log'[j].action = action /\ log'[j].sub = j
    /\ Len(log') <= Len(subscribers)
    /\ subscribers /= <<>> => log' /= <<>>
    /\ Result /= "threw" => Len(log') = Len(subscribers)

Restored(state) ==
    /\ data' = state.data
    /\ nextId' = state.nextId
    /\ "gantt" \notin Range(subscribers) =>
           Range(criticalTasks') = Range(state.criticalTasks)

Refused ==
    /\ ret' = RetBool(FALSE)
    /\ UNCHANGED storeVars
    /\ log' = <<>>

C9_UndoRedoSteps ==
    [][/\ Calls("undo") =>
            IF historyIndex > 0
            THEN /\ historyIndex' = historyIndex - 1
                 /\ history' = history
                 /\ Restored(history[historyIndex].state)
                 /\ DispatchedOnce("undo")
                 /\ Result \in {"true", "threw"}
            ELSE Refused
       /\ Calls("redo") =>
            IF historyIndex < Len(history) - 1
            THEN /\ historyIndex' = historyIndex + 1
                 /\ history' = history
                 /\ Restored(history[historyIndex + 2].state)
                 /\ DispatchedOnce("redo")
                 /\ Result \in {"true", "threw"}
            ELSE Refused]_vars

\* an undo moved the cursor to the oldest snapshot, the next undo was
\* refused
C9_Witness ==
    /\ PrevCall.op = "undo" /\ PrevCall.res = "true"
    /\ LastCall.op = "undo" /\ LastCall.res = "false"
    /\ Len(history) > 1
    /\ subscribers /= <<>>

(***************************************************************************)
(* C10, as claimed: when a subscriber throws during a notification, every  *)
(* other registered subscriber is still invoked for that notification and  *)
(* the store operation that caused it (add, update, delete, undo, redo)    *)
(* completes and returns its normal result.                                *)
(***************************************************************************)
C10_Original ==
    (LastCall.op \in {"add", "update", "delete", "undo", "redo"}
       /\ LastCall.res \notin {"null", "false"}) =>
        /\ ret /= Threw
        /\ \A j \in 1..Len(log) : \A i \in 1..Len(subscribers) :
               \E k \in 1..Len(log) :
                   log[k].sub = i /\ log[k].action = log[j].action

(***************************************************************************)
(* C11, as claimed: when a subscriber calls update, add or delete from     *)
(* inside its own notification callback (a bounded number of times), then  *)
(* after the outermost call the subscriber list is unchanged, the history  *)
(* holds at most maxHistory snapshots, the cursor is on the last snapshot  *)
(* and that snapshot equals the live state.                                *)
(***************************************************************************)
\* the number of snapshots written during the last call: every saveState
\* dispatches 'history-change' to the first subscriber once
Saves ==
    Cardinality({j \in 1..Len(log) :
                    log[j].action = "history-change" /\ log[j].sub = 1})
\* the number of snapshots the method itself writes
OwnSaves(op) == IF op \in Mutators THEN 1 ELSE 0
\* the last call ran a method of the store from inside a callback, and that
\* method took effect
Reentered == Saves > OwnSaves(LastCall.op)

C11_Original ==
    [][Reentered' =>
         /\ subscribers' = subscribers
         /\ Len(history') <= maxHistory
         /\ historyIndex' = Len(history') - 1
         /\ SnapLive(Current'.state) = Live']_vars

(***************************************************************************)
(* C12: when a subscriber subscribes or unsubscribes listeners (itself or  *)
(* others) during its callback, every listener that was registered when    *)
(* that notification started is invoked exactly once for it, in the order  *)
(* of registration, none is invoked twice, and a listener added during the *)
(* dispatch is not invoked for that dispatch.                              *)
(***************************************************************************)
\* who was invoked, as which listener and for what
Heard(l) ==
    [j \in 1..Len(l) |->
        [sub |-> l[j].sub, cb |-> l[j].cb, action |-> l[j].action]]

\* one invocation for each listener registered when the dispatch started
OncePerListener(d) ==
    [i \in 1..Len(d.subs) |->
        [sub |-> i, cb |-> d.subs[i], action |-> d.action]]

RECURSIVE Expected(_)
Expected(ds) ==
    IF ds = <<>> THEN <<>>
    ELSE OncePerListener(Head(ds)) \o Expected(Tail(ds))

C12_EachListenerOnce == Heard(log) = Expected(dispatches)

\* the first add: during its 'history-change' dispatch one listener left,
\* one subscribed "late" and one unsubscribed "table"; "table" was still
\* invoked for it and "late" was not
C12_Witness ==
    /\ LastCall.op = "add"
    /\ Len(dispatches) = 2
    /\ dispatches[1].subs = <<"leaver", "joiner", "bouncer", "table">>
    /\ dispatches[2].subs = <<"joiner", "bouncer", "late">>
    /\ subscribers = <<"joiner", "bouncer", "late">>
    /\ Len(log) = 7
    /\ log[4].cb = "table" /\ log[4].action = "history-change"
    /\ \A j \in 1..4 : log[j].cb /= "late"
    /\ log[7].cb = "late" /\ log[7].action = "add"

(***************************************************************************)
(* C13: releasing a drag whose pixel delta converts to a minute delta of 0 *)
(* (a press and release with no movement included) performs no store       *)
(* update: history.length and historyIndex are unchanged and no 'update'   *)
(* notification is emitted.                                                *)
(***************************************************************************)
\* the closures that are dragging, and the one that is
Dragging == {k \in 1..Len(gantt.closures) : gantt.closures[k].isDragging}
TheDrag == gantt.closures[CHOOSE k \in Dragging : TRUE]

\* the displacement of the dragged bar, in pixels, and the minute delta it
\* converts to
DeltaPx == ParsePx(TheDrag.left) - TheDrag.startLeft
DeltaMinutes == Round(DeltaPx * gantt.pxPerMin[2], gantt.pxPerMin[1])

\* the step releases the button while a bar is dragging
Release == Calls("mouseup") /\ Dragging /= {}

\* the actions notified during the last call, in order
Notified == [j \in 1..Len(dispatches) |-> dispatches[j].action]

C13_Original ==
    [][Release /\ DeltaMinutes = 0 =>
         /\ Len(history') = Len(history)
         /\ historyIndex' = historyIndex
         /\ "update" \notin Range(Notified')]_vars

(***************************************************************************)
(* C14: the drag gesture follows idle -> dragging (mousedown with the      *)
(* primary button) -> idle (mouseup): mousemove events while dragging      *)
(* never call the store and create no history entry, a mouseup while idle  *)
(* does nothing, and one press-release gesture with a non-zero minute      *)
(* delta commits exactly one store.update (one new history entry) for the  *)
(* dragged task, however many bars and re-renders exist.                   *)
(***************************************************************************)
\* the step calls no method of the store
StoreUntouched == UNCHANGED storeVars /\ dispatches' = <<>> /\ renders' = <<>>

\* the history after one saveState
OneMoreEntry ==
    LET pushed == Append(SubSeq(history, 1, historyIndex + 1),
                         history'[Len(history')])
    IN /\ history' = IF Len(pushed) > maxHistory THEN Tail(pushed)
                     ELSE pushed
       /\ historyIndex' = Len(history') - 1
       /\ history'[Len(history')].state.data = data'

C14_DragGesture ==
    [][/\ Calls("mousedown") =>
            StoreUntouched /\ Dragging \subseteq Dragging'
                           /\ Cardinality(Dragging') <= 1
       /\ Calls("mousemove") => StoreUntouched /\ Dragging' = Dragging
       /\ Calls("mouseup") => Dragging' = {}
       /\ Calls("mouseup") /\ Dragging = {} =>
            StoreUntouched /\ gantt' = gantt
       /\ Release /\ DeltaMinutes /= 0 =>
            /\ Notified' = <<"history-change", "update">>
            /\ \A j \in 1..Len(log') :
                   log'[j].action = "update" => log'[j].payload.id = TheDrag.id
            /\ OneMoreEntry
            /\ \A i \in 1..Len(data) :
                   data[i].id /= TheDrag.id => data'[i] = data[i]]_vars

\* a release has committed the drag of one of two bars, after the view was
\* rendered several times: one snapshot more than before, one 'update'
C14_Witness ==
    /\ LastCall.op = "mouseup"
    /\ PrevCall.op = "mousemove"
    /\ Len(data) = 2
    /\ Len(gantt.closures) = 2
    /\ Notified = <<"history-change", "update">>
    /\ Len(history) = before.length + 1
    /\ historyIndex = before.historyIndex + 1
    /\ before.live.data /= data

(***************************************************************************)
(* C15: on drag release with horizontal displacement deltaPx, the          *)
(* committed task has start = old start + round(deltaPx / pxPerMin)        *)
(* minutes and end = old end + the same number of minutes, so the duration *)
(* end - start is unchanged; this holds for every local time-zone offset   *)
(* between the wall-clock strings stored on the task and the strings       *)
(* written back.                                                           *)
(***************************************************************************)
\* the task of that id in a task list
TaskOf(list, id) == list[FindIndex(list, id)]

C15_Original ==
    [][Release =>
         LET old == TaskOf(data, TheDrag.id)
             new == TaskOf(data', TheDrag.id)
         IN /\ parseDateTime(new.start)
                 = parseDateTime(old.start) + DeltaMinutes
            /\ parseDateTime(new.end) = parseDateTime(old.end) + DeltaMinutes
            /\ parseDateTime(new.end) - parseDateTime(new.start)
                 = parseDateTime(old.end) - parseDateTime(old.start)]_vars

(***************************************************************************)
(* C16: rendering the timeline (Gantt.render and the layout steps it       *)
(* calls) leaves the store unchanged: task list, next-id counter, critical *)
(* set, type registry, history and historyIndex are the same after render  *)
(* as before; the only timeline path that changes the store is the         *)
(* store.update issued on drag release.                                    *)
(***************************************************************************)
C16_Original == \A j \in 1..Len(renders) : renders[j] = {}

(***************************************************************************)
(* C17: calculateCriticalPath() sets the critical set to exactly           *)
(* { t.id : t is a live task with priority 'high' } union { d : d is the   *)
(* id of a live task and d appears in the dependencies list of some live   *)
(* task }, and returns exactly those ids; ids in a dependencies list that  *)
(* match no live task are not included.                                    *)
(***************************************************************************)
\* the tasks of a task list
Tasks(list) == Range(list) \ {BadEntry}
\* the ids the dependencies lists of the list name
Named(list) ==
    UNION {{ParseInt(t.dependencies[j]) : j \in 1..Len(t.dependencies)} :
              t \in Tasks(list)}
HighIds(list) == {t.id : t \in {u \in Tasks(list) : u.priority = "high"}}
LiveIds(list) == {t.id : t \in Tasks(list)}
CriticalIds(list) == HighIds(list) \cup (LiveIds(list) \cap Named(list))

C17_Original ==
    LastCall.op = "calculateCriticalPath" =>
        /\ ret.kind = "ids"
        /\ Range(ret.ids) = CriticalIds(data)
        /\ Len(ret.ids) = Cardinality(Range(ret.ids))
        /\ Range(criticalTasks) = CriticalIds(data)

(***************************************************************************)
(* C18: for tasks A and B with B.dependencies = [A.id],                    *)
(* calculateCriticalPath() returns both A.id and B.id, whether A has       *)
(* priority 'high' or is merely referenced as a dependency, while a        *)
(* low-priority task that neither references nor is referenced by any task *)
(* is not returned.                                                        *)
(***************************************************************************)
\* b depends on a
DependsOn(b, a) ==
    \E j \in 1..Len(b.dependencies) : ParseInt(b.dependencies[j]) = a.id

\* a low-priority task that names no task and that no task names
Unrelated(list, c) ==
    /\ c.priority = "low"
    /\ c.dependencies = <<>>
    /\ c.id \notin Named(list)

\* calculateCriticalPath has just returned its ids
Computed == LastCall.op = "calculateCriticalPath" /\ ret.kind = "ids"

C18_Original ==
    Computed =>
        /\ \A a \in Tasks(data), b \in Tasks(data) :
               DependsOn(b, a) => {a.id, b.id} \subseteq Range(ret.ids)
        /\ \A c \in Tasks(data) :
               Unrelated(data, c) => c.id \notin Range(ret.ids)

\* as amended: the task depended on is returned, high or not; the
\* depending task is returned only when it has priority 'high' or is itself
\* depended on
C18_DependencyTargets ==
    Computed =>
        /\ \A a \in Tasks(data), b \in Tasks(data) :
               DependsOn(b, a) =>
                   /\ a.id \in Range(ret.ids)
                   /\ b.id \in Range(ret.ids) <=>
                          b.priority = "high" \/ b.id \in Named(data)
        /\ \A c \in Tasks(data) :
               Unrelated(data, c) => c.id \notin Range(ret.ids)

\* A (medium, id 1), B (low, depends on 1) and C (low, unrelated): only A
\* is returned
C18_Witness ==
    /\ Computed
    /\ Len(data) = 3
    /\ data[1].priority = "medium"
    /\ data[2].dependencies = <<"1">>
    /\ Unrelated(data, data[3])
    /\ ret.ids = <<1>>

(***************************************************************************)
(* C19: calculateCriticalPath() appends no history snapshot, does not move *)
(* historyIndex, changes no task and invokes no subscriber; calling it     *)
(* twice in a row with no operation in between yields the same critical    *)
(* set and the same returned ids as calling it once.                       *)
(***************************************************************************)
C19_NoSideEffect ==
    [][Calls("calculateCriticalPath") =>
         /\ UNCHANGED <<history, historyIndex, data, nextId, types,
                        projectName, subscribers>>
         /\ log' = <<>> /\ dispatches' = <<>>
         /\ LastCall.op = "calculateCriticalPath" =>
                criticalTasks' = criticalTasks /\ ret' = ret]_vars

\* the second of two calls in a row, on a store with a history, the Gantt
\* view subscribed: both returned the same two ids
C19_Witness ==
    /\ LastCall.op = "calculateCriticalPath"
    /\ PrevCall.op = "calculateCriticalPath"
    /\ subscribers = <<"table", "gantt", "app">>
    /\ Len(history) = 2
    /\ Len(criticalTasks) = 2
    /\ ret = RetIds(criticalTasks)
    /\ log = <<>>

(***************************************************************************)
(* C20: a failed import (malformed JSON text, a non-object value, or a     *)
(* data array containing an entry that cannot be read as a task) returns   *)
(* false and leaves projectName, type registry, task list, next-id counter,*)
(* history and historyIndex exactly as they were before the call; no part  *)
(* of the imported blob is applied.                                        *)
(***************************************************************************)
C20_Original ==
    [][Calls("importData") /\ Result = "false" =>
         UNCHANGED <<projectName, types, data, nextId, history,
                     historyIndex>>]_vars

(***************************************************************************)
(* C21: for every store state, importData(exportData()) returns true and   *)
(* afterwards getAll() is deep-equal to the pre-export task list with ids  *)
(* preserved, getTypes() is deep-equal to the pre-export registry, and     *)
(* every default type is present in the registry even when it is absent    *)
(* from the imported blob.                                                 *)
(***************************************************************************)
C21_Original ==
    [][Calls("exportImport") =>
         /\ Result = "true"
         /\ data' = data
         /\ types' = types
         /\ DOMAIN DEFAULT_TYPES \subseteq DOMAIN types']_vars

\* as amended: the task list comes back as it was, the registry comes back
\* merged over the default types, and the call returns true unless reading
\* an entry of the list or a subscriber throws
C21_RoundTrip ==
    [][Calls("exportImport") =>
         /\ data' = data
         /\ types' = [n \in DOMAIN DEFAULT_TYPES \cup DOMAIN types |->
                         IF n \in DOMAIN types THEN types[n]
                         ELSE DEFAULT_TYPES[n]]
         /\ types' = types <=> DOMAIN DEFAULT_TYPES \subseteq DOMAIN types
         /\ Result = "true" <=>
                /\ FirstBad(data) = 0
                /\ "thrower" \notin Range(subscribers)]_vars

\* a round trip that returned true on a store with a task, after the
\* default type "Transport" was deleted: the type is back in the registry
C21_Witness ==
    /\ LastCall.op = "exportImport"
    /\ LastCall.res = "true"
    /\ PrevCall.op = "deleteType"
    /\ data /= <<>>
    /\ "Transport" \in DOMAIN types
    /\ types["Transport"] = DEFAULT_TYPES["Transport"]

(***************************************************************************)
(* C22: after any add or update carrying an arbitrary integer progress     *)
(* value (negative or above 100 included), the stored task's progress lies *)
(* in [0,100]; hence in every reachable store state every task has         *)
(* 0 <= progress <= 100.                                                   *)
(***************************************************************************)
C22_Original == \A t \in Tasks(data) : t.progress \in 0..100

(***************************************************************************)
(* C23: renaming a type with updateType(oldName, newName, color),          *)
(* oldName != newName, rewrites every task whose type was oldName to       *)
(* type = newName and color = color, leaves every other task untouched,    *)
(* removes oldName from the registry, sets registry[newName] = color, and  *)
(* emits exactly one 'types-change' notification.                          *)
(***************************************************************************)
\* the step leaves the task list, the registry and the notifications as the
\* call that ended in S does
StepIs(S) ==
    data' = S.data /\ types' = S.types /\ dispatches' = S.dispatches

\* what the claim says of the rename of oldName to newName
Renamed(oldName, newName, color) ==
    /\ Len(data') = Len(data)
    /\ \A i \in 1..Len(data) :
           data'[i] = IF data[i] /= BadEntry /\ data[i].type = oldName
                      THEN [data[i] EXCEPT !.type = newName, !.color = color]
                      ELSE data[i]
    /\ oldName \notin DOMAIN types'
    /\ newName \in DOMAIN types' /\ types'[newName] = color
    /\ Notified' = <<"types-change">>

C23_Original ==
    [][\A t \in TypeRenames :
           /\ t[1] /= t[2]
           /\ Calls("updateType")
           /\ StepIs(updateType(Store, t[1], t[2], t[3]))
           => Renamed(t[1], t[2], t[3])]_vars

(***************************************************************************)
(* C24: filter(options) returns exactly the live tasks that satisfy every  *)
(* supplied predicate (search substring in title or type ignoring case,    *)
(* type equality, priority equality, membership in the critical set when   *)
(* criticalOnly), in the same relative order as the store's task list; in  *)
(* particular filter({type: X}) for non-empty X returns exactly the tasks  *)
(* with type === X in original order, and the store is unchanged.          *)
(***************************************************************************)
\* task t satisfies every predicate options supplies
Satisfies(t, options) ==
    /\ t /= BadEntry
    /\ OrStr(options, "search", "") /= "" =>
           \/ includes(toLowerCase(t.task), toLowerCase(options.search))
           \/ includes(toLowerCase(t.type), toLowerCase(options.search))
    /\ OrStr(options, "type", "") /= "" => t.type = options.type
    /\ OrStr(options, "priority", "") /= "" => t.priority = options.priority
    /\ OrBool(options, "criticalOnly", FALSE) => t.id \in Range(criticalTasks)

C24_Original ==
    [][\A options \in FilterOptions :
           Calls("filter") /\ ret' = filter(Store, options).ret =>
               /\ ret'.kind = "tasks"
               /\ ret'.tasks = SelectSeq(data,
                                         LAMBDA t : Satisfies(t, options))
               /\ UNCHANGED storeVars]_vars

(***************************************************************************)
(* C25: no store operation changes the contents of a snapshot already in   *)
(* the history: after update mutates a task in place, after delete, and    *)
(* after undo/redo followed by further in-place updates, every snapshot    *)
(* still in the history holds the same task values it held when written    *)
(* (snapshots share no mutable task with the live list or with each        *)
(* other).                                                                 *)
(***************************************************************************)
\* the snapshots the step wrote
Written ==
    Cardinality({j \in 1..Len(dispatches') :
                    dispatches'[j].action = "history-change"})

\* no object is held twice: by two snapshots, or by a snapshot and the
\* live list
NothingShared ==
    LET all == objects.live \o Flat(objects.snaps)
    IN Cardinality(Range(all)) = Len(all)

C25_SnapshotsImmutable ==
    [][/\ NothingShared'
       /\ Written = 0 => history' = history
       /\ Written = 1 /\ ~Calls("importData") =>
            LET kept == historyIndex + 1
                evicted == kept + 1 - Len(history')
            IN /\ evicted \in {0, 1}
               /\ SubSeq(history', 1, Len(history') - 1)
                    = SubSeq(history, evicted + 1, kept)]_vars

\* an update in place after an undo: the snapshot the undo restored is
\* still in the history and differs from the live list
C25_Witness ==
    /\ LastCall.op = "update" /\ LastCall.res = "task"
    /\ PrevCall.op = "undo" /\ PrevCall.res = "true"
    /\ Len(history) = 2
    /\ history[1].state.data /= data
    /\ history[2].state.data = data

(***************************************************************************)
(* C26: when a cloud load fails (api.load rejects), the task list, the     *)
(* project name, the type registry, the history and the cursor are after   *)
(* loadFromCloud what they were before it; when a cloud save fails the     *)
(* store is likewise unchanged.  Stated of the steps such a call is made   *)
(* of: its run up to the await, and its run after the rejection.           *)
(***************************************************************************)
StoreKept ==
    /\ data' = data
    /\ projectName' = projectName
    /\ types' = types
    /\ history' = history
    /\ historyIndex' = historyIndex
    /\ objects' = objects

NonMilestones(list) == SelectSeq(list, LAMBDA t : ~t.milestone)
\* the timestamps of field f that the tasks carry
Stamps(list, f) == {parseDateTime(list[i][f]) : i \in 1..Len(list)} \ {Null}
\* the step rendered the timeline with something to draw
Rendered == renders' /= <<>> /\ NonMilestones(data') /= <<>>

C27_Original ==
    [][Rendered =>
         LET starts == Stamps(NonMilestones(data'), "start")
             ends == Stamps(NonMilestones(data'), "end")
         IN /\ starts /= {} => gantt'.minStart = MinOf(starts)
            /\ ends /= {} => gantt'.maxEnd = MaxIn(ends)]_vars

\* C27 as amended: minStart is the minimum and maxEnd the maximum of the
\* start and end timestamps taken together (invalid dates when the tasks
\* carry no timestamp)
C27_PooledBounds ==
    [][Rendered =>
         LET all == Stamps(NonMilestones(data'), "start")
                      \cup Stamps(NonMilestones(data'), "end")
         IN IF all = {}
            THEN gantt'.minStart = InvalidDate /\ gantt'.maxEnd = InvalidDate
            ELSE gantt'.minStart = MinOf(all) /\ gantt'.maxEnd = MaxIn(all)]_vars

\* the timeline was drawn for a list with a task that ends before it
\* starts, and a milestone outside the bounds
C27_Witness ==
    /\ LastCall.op = "zoom"
    /\ \E t \in Range(data) :
          /\ ~t.milestone
          /\ parseDateTime(t.end) /= Null
          /\ parseDateTime(t.end) < parseDateTime(t.start)
          /\ gantt.minStart = parseDateTime(t.end)
    /\ \E m \in Range(data) :
          m.milestone /\ parseDateTime(m.start) < gantt.minStart

(***************************************************************************)
(* C28: chooseTickInterval(m), for every non-negative integer m, is 30 if  *)
(* m <= 480, 60 if 480 < m <= 1440, 120 if 1440 < m <= 2880, 720 if        *)
(* 2880 < m <= 10080 and 1440 otherwise; it is non-decreasing in m;        *)
(* chooseTickInterval(480) = 30, chooseTickInterval(1440) = 60 and         *)
(* chooseTickInterval(20000) = 1440.                                       *)
(***************************************************************************)
C28_TickInterval ==
    [][Calls("chooseTickInterval") =>
         LET m == ret'.arg
             tick == ret'.val
         IN /\ m <= 480 => tick = 30
            /\ 480 < m /\ m <= 1440 => tick = 60
            /\ 1440 < m /\ m <= 2880 => tick = 120
            /\ 2880 < m /\ m <= 10080 => tick = 720
            /\ 10080 < m => tick = 1440
            /\ ret.kind = "number" => ret.arg < m /\ ret.val <= tick
            /\ m = 480 => tick = 30
            /\ m = 1440 => tick = 60
            /\ m = 20000 => tick = 1440]_vars

\* chooseTickInterval(20000) has returned 1440, after chooseTickInterval
\* of 19999
C28_Witness ==
    /\ LastCall.op = "chooseTickInterval"
    /\ PrevCall.op = "chooseTickInterval"
    /\ ret.arg = 20000
    /\ ret.val = 1440

(***************************************************************************)
(* C29: every successful add, update or delete appends exactly one history *)
(* snapshot and then delivers to each subscriber exactly one               *)
(* 'history-change' notification followed by exactly one notification      *)
(* tagged with the operation and carrying the affected task; when either   *)
(* is delivered, the live task list, the history and historyIndex already  *)
(* reflect the completed mutation.                                         *)
(***************************************************************************)
\* the step is a call of op that changed the task list (saveState ran)
Mutated(op) == Calls(op) /\ dispatches' /= <<>>
\* what subscriber i was told of the mutation, in order
Told(i, op) ==
    SelectSeq(log', LAMBDA e : e.sub = i /\ e.action \in {"history-change", op})
\* the task the operation is about
Affects(op, task) ==
    CASE op = "add" -> task = data'[Len(data')]
      [] op = "update" -> task \in Range(data')
      [] op = "delete" -> task \in Range(data) /\ Len(data') = Len(data) - 1

C29_Original ==
    [][\A op \in {"add", "update", "delete"} :
          Mutated(op) =>
             /\ OneMoreEntry
             /\ \A i \in 1..Len(subscribers) :
                   /\ Len(Told(i, op)) = 2
                   /\ Told(i, op)[1].action = "history-change"
                   /\ Told(i, op)[2].action = op
                   /\ Affects(op, Told(i, op)[2].payload)
             /\ \A j \in 1..Len(dispatches') :
                   dispatches'[j].action \in {"history-change", op} =>
                       dispatches'[j].seen =
                           [data |-> data', history |-> history',
                            historyIndex |-> historyIndex']]_vars

(***************************************************************************)
(* C30: update(id, fields) on a live task changes only the fields present  *)
(* in the patch, except that when the patch carries a type and no color    *)
(* the task's color becomes the registry color of the new type; every      *)
(* other task, the task order and the next-id counter are unchanged; add   *)
(* without a color sets color to the registry color of its type or to      *)
(* '#5da7ff' when the type is not registered.                              *)
(***************************************************************************)
\* the place of the live task id in the list, 0 when there is none
PlaceOf(id) ==
    IF \E i \in 1..Len(data) : data[i] /= BadEntry /\ data[i].id = id
    THEN CHOOSE i \in 1..Len(data) : data[i] /= BadEntry /\ data[i].id = id
    ELSE 0

\* update(id, fields) on the task at place i, whose color comes out as color
Patched(i, fields, color) ==
    /\ Len(data') = Len(data)
    /\ \A j \in 1..Len(data) : j /= i => data'[j] = data[j]
    /\ nextId' = nextId
    /\ DOMAIN data'[i] = DOMAIN data[i]
    /\ \A f \in DOMAIN fields : data'[i][f] = fields[f]
    /\ \A f \in DOMAIN data[i] \ (DOMAIN fields \cup {"color"}) :
           data'[i][f] = data[i][f]
    /\ ~Has(fields, "color") => data'[i].color = color

\* add(task) without a color
Colored(task) ==
    ~Has(task, "color") =>
        data'[Len(data')].color =
            IF Has(task, "type") /\ task.type \in DOMAIN types
            THEN types[task.type] ELSE "#5da7ff"

\* the color the registry has for a type, undefined when it has none
RegistryColor(name) ==
    IF name \in DOMAIN types THEN types[name] ELSE "undefined"

C30_Original ==
    [][/\ \A id \in Ids, fields \in ColorPatches :
             Calls("update") /\ StepIs(update(Store, id, fields))
                 /\ PlaceOf(id) /= 0 =>
                 Patched(PlaceOf(id), fields,
                         IF Has(fields, "type")
                         THEN RegistryColor(fields.type)
                         ELSE data[PlaceOf(id)].color)
       /\ \A task \in ColorInputs :
             Calls("add") /\ StepIs(add(Store, task)) => Colored(task)]_vars

\* C30 as amended: the color becomes the registry color of the new type
\* when the registry has that type and stays as it was when it has not; an
\* update that throws while it looks for the task changes nothing
C30_PatchedFields ==
    [][/\ \A id \in Ids, fields \in ColorPatches :
             Calls("update") /\ StepIs(update(Store, id, fields))
                 /\ PlaceOf(id) /= 0 =>
                 IF dispatches' = <<>>
                 THEN Result = "threw" /\ data' = data /\ nextId' = nextId
                 ELSE Patched(PlaceOf(id), fields,
                              IF Has(fields, "type")
                                 /\ fields.type \in DOMAIN types
                              THEN types[fields.type]
                              ELSE data[PlaceOf(id)].color)
       /\ \A task \in ColorInputs :
             Calls("add") /\ StepIs(add(Store, task)) => Colored(task)]_vars

\* a task added without type and color has the fallback color, and takes
\* the color of a registered type from a patch that names the type only
C30_Witness ==
    /\ LastCall.op = "update" /\ LastCall.res = "task"
    /\ PrevCall.op = "add"
    /\ before.live.data[Len(before.live.data)].color = "#5da7ff"
    /\ \E t \in Tasks(data) :
          /\ t.task = "D" /\ t.type = "Montazh" /\ t.progress = 50
          /\ t.color = "#ffd166"

(***************************************************************************)
(* C31: duplicate(id) on a live task adds exactly one task whose id is the *)
(* next sequential id (different from every live id), whose title is the   *)
(* original title with the copy marker appended and whose other fields     *)
(* equal the original's; the original task is unchanged, exactly one       *)
(* history snapshot is appended and one 'add' notification is emitted; on  *)
(* an unknown id it returns null and changes nothing.                      *)
(***************************************************************************)
\* the dispatches of the step that carry action
Emitted(action) == {j \in 1..Len(dispatches') : dispatches'[j].action = action}

\* what the claim says of duplicate of the task at place i
Duplicated(i) ==
    LET copy == data'[Len(data')]
    IN /\ Len(data') = Len(data) + 1
       /\ SubSeq(data', 1, Len(data)) = data
       /\ copy.id = nextId
       /\ \A j \in 1..Len(data) : data[j] /= BadEntry => data[j].id /= copy.id
       /\ copy.task = data[i].task \o CopyMarker
       /\ DOMAIN copy = DOMAIN data[i]
       /\ \A f \in DOMAIN data[i] \ {"id", "task"} : copy[f] = data[i][f]
       /\ OneMoreEntry
       /\ Cardinality(Emitted("add")) = 1
       /\ Result = "task"

\* a call that returns null and changes nothing
NullAndNothing ==
    /\ Result = "null"
    /\ dispatches' = <<>>
    /\ UNCHANGED <<data, nextId, types, history, historyIndex,
                   criticalTasks, projectName>>

C31_Original ==
    [][\A id \in Ids :
          Calls("duplicate") /\ StepIs(duplicate(Store, id)) =>
              IF PlaceOf(id) /= 0 THEN Duplicated(PlaceOf(id))
              ELSE NullAndNothing]_vars

(***************************************************************************)
(* C32: the timeline lays out exactly the non-milestone tasks, in          *)
(* non-decreasing order of start time, one row per task, with the bar and  *)
(* the label of the task at position index placed at vertical offset       *)
(* index * rowHeight; a milestone never receives a row, and a dependency   *)
(* whose predecessor or dependent is a milestone or a missing task         *)
(* produces no curve.                                                      *)
(***************************************************************************)
\* the step drew the timeline
Redrawn == renders' /= <<>>
\* the bars on the page after the step, and the live task of an id
BarsOnPage == SelectSeq(gantt'.closures, LAMBDA c : c.attached)
RowTask(id) == CHOOSE t \in Range(data') : t.id = id
HasDates(t) == parseDateTime(t.start) /= Null /\ parseDateTime(t.end) /= Null

\* the rows are those of the non-milestone tasks, one each, by start time
RowsOfTasks ==
    LET rows == gantt'.labels
    IN /\ Len(rows) = Len(NonMilestones(data'))
       /\ Range(rows) = {t.id : t \in Range(NonMilestones(data'))}
       /\ \A i, j \in 1..Len(rows) :
             i < j /\ parseDateTime(RowTask(rows[i]).start) /= Null
                   /\ parseDateTime(RowTask(rows[j]).start) /= Null =>
                 parseDateTime(RowTask(rows[i]).start)
                     <= parseDateTime(RowTask(rows[j]).start)
       /\ \A b \in Range(BarsOnPage) : b.id \in Range(rows)

\* a curve joins two tasks that have rows
CurvesOfRows ==
    \A k \in 1..Len(gantt'.curves) :
        LET c == gantt'.curves[k]
        IN /\ c.from \in Range(gantt'.labels)
           /\ c.to \in Range(gantt'.labels)
           /\ \E t \in Range(data') :
                 t.id = c.to /\ \E j \in 1..Len(t.dependencies) :
                                    ParseInt(t.dependencies[j]) = c.from

C32_Original ==
    [][Redrawn =>
         /\ RowsOfTasks
         /\ CurvesOfRows
         /\ \A k \in 1..Len(gantt'.labels) :
               Cardinality({j \in 1..Len(BarsOnPage) :
                               /\ BarsOnPage[j].id = gantt'.labels[k]
                               /\ BarsOnPage[j].top = (k - 1) * rowHeight})
                   = 1]_vars

\* C32 as amended: the label of the task at position index is item index of
\* the label column; the task has a bar, at index * rowHeight + 9, when its
\* start and its end both parse, and no bar otherwise
C32_RowsAndBars ==
    [][Redrawn =>
         /\ RowsOfTasks
         /\ CurvesOfRows
         /\ \A k \in 1..Len(gantt'.labels) :
               LET mine == {j \in 1..Len(BarsOnPage) :
                               BarsOnPage[j].id = gantt'.labels[k]}
               IN IF HasDates(RowTask(gantt'.labels[k]))
                  THEN /\ Cardinality(mine) = 1
                       /\ \A j \in mine :
                             BarsOnPage[j].top = (k - 1) * rowHeight + 9
                  ELSE mine = {}
         /\ \A k \in 1..Len(gantt'.curves) :
               LET c == gantt'.curves[k]
                   Row(id) == CHOOSE i \in 1..Len(gantt'.labels) :
                                  gantt'.labels[i] = id
               IN /\ c.startY = (Row(c.from) - 1) * rowHeight + rowHeight \div 2
                  /\ c.endY = (Row(c.to) - 1) * rowHeight + rowHeight \div 2]_vars

\* the timeline shows the later-added early task in the first row and the
\* task it depends on in the second, with one curve between them; and a
\* timeline drawn for a milestone and a task that names it has one row and
\* no curve
C32_Witness ==
    \/ /\ Len(gantt.labels) = 2 /\ gantt.labels = <<2, 1>>
       /\ Len(gantt.curves) = 1
       /\ gantt.curves[1].from = 1 /\ gantt.curves[1].to = 2
       /\ \E c \in Range(gantt.closures) :
             c.attached /\ c.id = 1 /\ c.top = rowHeight + 9
    \/ /\ LastCall.op = "add" /\ Len(data) = 2 /\ data[1].milestone
       /\ data[2].dependencies /= <<>>
       /\ gantt.labels = <<2>> /\ gantt.curves = <<>>

(***************************************************************************)
(* C33: in every state reachable from an empty store by add, duplicate,    *)
(* delete, undo, redo and update with patches that carry no id field, no   *)
(* two live tasks share an id and the next-id counter is strictly greater  *)
(* than every live task's id.                                              *)
(***************************************************************************)
C33_UniqueIds ==
    /\ \A i, j \in 1..Len(data) : i /= j => data[i].id /= data[j].id
    /\ \A i \in 1..Len(data) : data[i].id < nextId

\* an add after an undo gave the id of the undone task again, and the two
\* live tasks still differ in their ids
C33_Witness ==
    /\ PrevCall.op = "undo" /\ PrevCall.res = "true"
    /\ LastCall.op = "add" /\ LastCall.res = "task"
    /\ Len(data) = 2 /\ data[1].id = 1 /\ data[2].id = 2
    /\ nextId = 3

(***************************************************************************)
(* C34: on a freshly constructed store the empty initial state is never    *)
(* recorded as a snapshot: after exactly one add the history holds one     *)
(* snapshot, canUndo() is false and undo() returns false leaving the added *)
(* task in place; in general after n >= 1 mutations on a fresh store at    *)
(* most n - 1 consecutive undo() calls return true.                        *)
(***************************************************************************)
\* the first call on the fresh store was an add, and nothing else was called
OneAdd == Len(calls) = 1 /\ calls[1].op = "add"

C34_FirstMutationStays ==
    [][/\ Len(calls') = 1 /\ Calls("add") =>
             /\ Len(history') = 1
             /\ history'[1].state.data = data'
             /\ Len(data') = 1
             /\ ~canUndo([Store EXCEPT !.history = history',
                                       !.historyIndex = historyIndex'])
       /\ OneAdd /\ Calls("undo") =>
             /\ Result = "false"
             /\ data' = data /\ history' = history
             /\ historyIndex' = historyIndex
       /\ Calls("undo") /\ Result = "true" =>
             /\ steps' >= 1
             /\ historyIndex' >= 0
             /\ data' = history'[historyIndex' + 1].state.data
       /\ history' /= <<>> => steps' >= 1]_vars

\* two mutations were carried out on the fresh store; the first undo()
\* returned true, the second false
C34_Witness ==
    /\ PrevCall.op = "undo" /\ PrevCall.res = "true"
    /\ LastCall.op = "undo" /\ LastCall.res = "false"
    /\ steps = 1 /\ historyIndex = 0 /\ Len(history) = 2
    /\ Len(data) = 1

(***************************************************************************)
(* C35: a successful importData (called directly, or by a completed cloud  *)
(* load that returned a non-empty task list) replaces the live task list,  *)
(* sets the next-id counter to 1 + the largest imported id (1 for an empty *)
(* list) and resets the history to a single snapshot with historyIndex =   *)
(* 0, so that undo() and redo() both return false immediately afterwards   *)
(* and no state from before the import, edits made while the load was in   *)
(* flight included, can be restored.                                       *)
(***************************************************************************)
\* the blob loadFromCloud hands to importData
BlobOf(outcome) ==
    IF Has(outcome, "projectName")
    THEN [kind |-> "object", data |-> outcome.data,
          projectName |-> outcome.projectName]
    ELSE [kind |-> "object", data |-> outcome.data]

\* the step ran importData(json), which returned true
Imports(json) ==
    LET Ran(R) == R.ret = RetBool(TRUE) /\ StepIs(R) /\ history' = R.history
    IN Ran(importData(Store, json))

\* the blobs the step imported successfully
ImportedNow ==
    {json \in ImportBlobs : Calls("importData") /\ Imports(json)}
      \cup {BlobOf(outcome) :
               outcome \in {o \in LoadOutcomes :
                               /\ Calls("loadResolved")
                               /\ o.kind = "resolved"
                               /\ Len(o.data) > 0
                               /\ Imports(BlobOf(o))}}

\* the history is the one snapshot of the live list
HistoryReset ==
    /\ Len(history') = 1
    /\ historyIndex' = 0
    /\ history'[1].state.data = data'
    /\ history'[1].state.nextId = nextId'

\* the last call imported a blob (saveState ran in it)
JustImported ==
    \/ (LastCall.op = "importData" /\ LastCall.res = "true")
    \/ (LastCall.op = "loadResolved" /\ dispatches /= <<>>)

\* undo() and redo() return false and restore nothing
NothingToRestore ==
    JustImported /\ (Calls("undo") \/ Calls("redo")) =>
        /\ Result = "false"
        /\ UNCHANGED <<data, nextId, history, historyIndex>>

C36_RegistryOutsideHistory ==
    [][/\ Calls("undo") \/ Calls("redo") =>
             types' = types /\ projectName' = projectName
       /\ Calls("updateType") \/ Calls("addType") \/ Calls("deleteType") =>
             /\ history' = history
             /\ historyIndex' = historyIndex
             /\ projectName' = projectName]_vars

\* a type was renamed and the rename of the tasks then undone: a live task
\* holds the old name again, which the registry no longer has
C36_Witness ==
    /\ PrevCall.op = "updateType"
    /\ LastCall.op = "undo" /\ LastCall.res = "true"
    /\ "Montazh" \notin DOMAIN types
    /\ "Installation" \in DOMAIN types
    /\ \E t \in Tasks(data) : t.type = "Montazh"

(***************************************************************************)
(* C37: delete(id) on a live task removes exactly that task and removes id *)
(* from the critical set, and leaves every other task unchanged in content *)
(* and order, dependencies lists that still contain id included; a later   *)
(* calculateCriticalPath() ignores such dangling ids and never places an   *)
(* id of a non-live task in the critical set.                              *)
(***************************************************************************)
C37_Original ==
    [][/\ \A id \in Ids :
             Calls("delete") /\ StepIs(delete(Store, id)) /\ PlaceOf(id) /= 0
                 => /\ data' = RemoveAt(data, PlaceOf(id))
                    /\ id \notin Range(criticalTasks')
                    /\ nextId' = nextId
       /\ Calls("calculateCriticalPath") =>
             /\ Range(criticalTasks') \subseteq LiveIds(data')
             /\ ret'.kind = "ids" => Range(ret'.ids) \subseteq LiveIds(data')]_vars

(***************************************************************************)
(* C38: with the table subscribed before the timeline, whenever the table  *)
(* re-renders on an add, update, delete, undo or redo notification, the    *)
(* critical set it reads through isCritical is the critical-path heuristic *)
(* of the current task list: a row has the class critical exactly when the *)
(* heuristic marks its task in the list the table draws.                   *)
(***************************************************************************)
\* the table re-rendered in the call the step makes
TableRedrawn == tableRenders' /= <<>>

\* the ids of the rows a render of the table highlighted
Highlighted(rows) == {rows[k].id : k \in {k \in 1..Len(rows) : rows[k].critical}}

C38_Original ==
    [][\A j \in 1..Len(tableRenders') :
          /\ [k \in 1..Len(tableRenders'[j]) |-> tableRenders'[j][k].id]
                = [k \in 1..Len(data') |-> data'[k].id]
          /\ Highlighted(tableRenders'[j]) = CriticalIds(data')]_vars

(***************************************************************************)
(* C39: a 'saved to cloud' success message is shown only after the         *)
(* api.save call it is about has completed successfully: on every path     *)
(* that triggers a save (save button, share, Ctrl+S), while the save is in *)
(* flight, and when it is rejected, no success message for it has been     *)
(* shown.                                                                  *)
(***************************************************************************)
\* the numbers of the saves for which a 'saved to cloud' success message
\* has been shown
SavedShown(toasts) ==
    {toasts[k].save : k \in {k \in 1..Len(toasts) :
                                /\ toasts[k].type = "success"
                                /\ toasts[k].message \in
                                      {"Sokhraneno v oblako!",
                                       "Sokhraneno v oblako"}}}

\* the numbers of the saves in flight
InFlight(reqs) ==
    {reqs[k].n : k \in {k \in 1..Len(reqs) : reqs[k].op = "save"}}

====
